---- MODULE Spec2Model ----
(***************************************************************************)
(* A model of generate-domains-blocklist.py: the list parsers, the         *)
(* redundancy tests and the aggregation driver                             *)
(* blocklists_from_config_file.  Text is modelled character by character:  *)
(* a string is a sequence of one-character strings, a content is the       *)
(* sequence of its lines, a set of names is a set of such strings.         *)
(***************************************************************************)
EXTENDS Integers, Sequences, FiniteSets, TLC

(***************************************************************************)
(* Characters                                                              *)
(***************************************************************************)
LowerSeq ==
  << "a", "b", "c", "d", "e", "f", "g", "h", "i", "j", "k", "l", "m",
     "n", "o", "p", "q", "r", "s", "t", "u", "v", "w", "x", "y", "z" >>

UpperSeq ==
  << "A", "B", "C", "D", "E", "F", "G", "H", "I", "J", "K", "L", "M",
     "N", "O", "P", "Q", "R", "S", "T", "U", "V", "W", "X", "Y", "Z" >>

DigitSeq == << "0", "1", "2", "3", "4", "5", "6", "7", "8", "9" >>

\* The characters of the model in code-point order (str comparison in sort()).
Ascii ==
  << "\t", " ", "!", "\"", "#", "$", "*", ",", "-", ".", "/" >> \o DigitSeq
  \o << ":", "=", "?", "@" >> \o UpperSeq \o << "[", "]", "^" >> \o LowerSeq
  \o << "|" >>

Range(f) == { f[x] : x \in DOMAIN f }

Lowers == Range(LowerSeq)

Uppers == Range(UpperSeq)

Digits == Range(DigitSeq)

\* \s inside one line (splitlines has removed the line terminators)
Whitespace == { " ", "\t" }

\* [a-z0-9]
AlNum == Lowers \cup Digits

\* [a-z0-9.-]
DomChars == AlNum \cup { ".", "-" }

\* [*a-z0-9.-]
TrustedChars == DomChars \cup { "*" }

Ord(c) == CHOOSE k \in 1..Len(Ascii) : Ascii[k] = c

Max(S) == CHOOSE x \in S : \A y \in S : y <= x

Min(S) == CHOOSE x \in S : \A y \in S : x <= y

(***************************************************************************)
(* str methods                                                             *)
(***************************************************************************)
\* str.lower, one character
LowerChar(c) ==
  IF c \in Uppers THEN LowerSeq[CHOOSE k \in 1..26 : UpperSeq[k] = c] ELSE c

\* str.lower
Lower(s) == [k \in 1..Len(s) |-> LowerChar(s[k])]

\* str.strip
Strip(s) ==
  LET keep == { k \in 1..Len(s) : s[k] \notin Whitespace }
  IN  IF keep = {} THEN << >> ELSE SubSeq(s, Min(keep), Max(keep))

\* s[i:] starts with the literal lit
StartsWithAt(s, i, lit) ==
  /\ i + Len(lit) - 1 <= Len(s)
  /\ \A k \in 1..Len(lit) : s[i + k - 1] = lit[k]

\* lit in s
Contains(s, lit) == \E i \in 1..(Len(s) + 1) : StartsWithAt(s, i, lit)

\* str.split(name, "."): the labels of a name
RECURSIVE Split(_)
Split(s) ==
  LET dots == { k \in 1..Len(s) : s[k] = "." }
  IN  IF dots = {} THEN << s >>
      ELSE << SubSeq(s, 1, Min(dots) - 1) >>
           \o Split(SubSeq(s, Min(dots) + 1, Len(s)))

\* str.join(".", parts)
RECURSIVE Join(_)
Join(parts) ==
  IF parts = << >> THEN << >>
  ELSE IF Len(parts) = 1 THEN parts[1]
  ELSE parts[1] \o << "." >> \o Join(Tail(parts))

Reverse(q) == [k \in 1..Len(q) |-> q[Len(q) + 1 - k]]

\* a < b for str (code-point lexicographic order)
RECURSIVE StrLess(_, _)
StrLess(a, b) ==
  IF b = << >> THEN FALSE
  ELSE IF a = << >> THEN TRUE
  ELSE IF a[1] # b[1] THEN Ord(a[1]) < Ord(b[1])
  ELSE StrLess(Tail(a), Tail(b))

(***************************************************************************)
(* name_cmp, is_glob, fnmatch, covered_by_glob, has_suffix                 *)
(***************************************************************************)
name_cmp(name) == Join(Reverse(Split(name)))

\* The sort as it would be with the name itself as the key
RECURSIVE SortByName(_)
SortByName(q) ==
  IF q = << >> THEN << >>
  ELSE LET rest == SortByName(SubSeq(q, 1, Len(q) - 1))
           x    == q[Len(q)]
           pos  == Cardinality({ k \in 1..Len(rest) : ~StrLess(x, rest[k]) })
       IN  SubSeq(rest, 1, pos) \o << x >> \o SubSeq(rest, pos + 1, Len(rest))

\* list.sort(key=name_cmp): a stable insertion by key
RECURSIVE SortByNameCmp(_)
SortByNameCmp(q) ==
  IF q = << >> THEN << >>
  ELSE LET rest == SortByNameCmp(SubSeq(q, 1, Len(q) - 1))
           x    == q[Len(q)]
           \* x goes after every element whose key is <= its own
           pos  == Cardinality({ k \in 1..Len(rest) :
                                   ~StrLess(name_cmp(x), name_cmp(rest[k])) })
       IN  SubSeq(rest, 1, pos) \o << x >> \o SubSeq(rest, pos + 1, Len(rest))

\* is_glob as it would be if a "*" in first position counted as well
is_glob_leading_star(pattern) ==
  \E i \in 1..Len(pattern) :
     \/ pattern[i] \in { "?", "[" }
     \/ /\ pattern[i] = "*"
        /\ (i < Len(pattern) \/ (i # 1 /\ pattern[i - 1] = "."))

is_glob(pattern) ==
  \E i \in 1..Len(pattern) :
     \/ pattern[i] \in { "?", "[" }
     \/ /\ pattern[i] = "*"
        /\ i # 1
        /\ (i < Len(pattern) \/ pattern[i - 1] = ".")

\* The end of the bracket expression opened at p[i] = "[", 0 when it is not
\* closed (fnmatch.translate then takes "[" literally).
BracketEnd(p, i) ==
  LET j1 == IF i + 1 <= Len(p) /\ p[i + 1] = "!" THEN i + 2 ELSE i + 1
      j2 == IF j1 <= Len(p) /\ p[j1] = "]" THEN j1 + 1 ELSE j1
      closing == { j \in j2..Len(p) : p[j] = "]" }
  IN  IF closing = {} THEN 0 ELSE Min(closing)

\* c is in the bracket expression body stuff (ranges x-y by code point)
InClass(c, stuff) ==
  \/ \E k \in 1..Len(stuff) :
        /\ stuff[k] = c
        /\ ~(stuff[k] = "-" /\ 1 < k /\ k < Len(stuff))
  \/ \E k \in 2..(Len(stuff) - 1) :
        /\ stuff[k] = "-"
        /\ Ord(stuff[k - 1]) <= Ord(c)
        /\ Ord(c) <= Ord(stuff[k + 1])

\* fnmatch.fnmatch(name, pat) on a POSIX host: name[i:] matches pat[j:]
RECURSIVE FnmatchFrom(_, _, _, _)
FnmatchFrom(n, i, p, j) ==
  IF j > Len(p) THEN i > Len(n)
  ELSE IF p[j] = "*" THEN
    \E k \in i..(Len(n) + 1) : FnmatchFrom(n, k, p, j + 1)
  ELSE IF i > Len(n) THEN FALSE
  ELSE IF p[j] = "?" THEN FnmatchFrom(n, i + 1, p, j + 1)
  ELSE IF p[j] = "[" /\ BracketEnd(p, j) # 0 THEN
    LET e     == BracketEnd(p, j)
        neg   == p[j + 1] = "!"
        stuff == SubSeq(p, IF neg THEN j + 2 ELSE j + 1, e - 1)
    IN  /\ (InClass(n[i], stuff) # neg)
        /\ FnmatchFrom(n, i + 1, p, e + 1)
  ELSE n[i] = p[j] /\ FnmatchFrom(n, i + 1, p, j + 1)

fnmatch(name, pat) == FnmatchFrom(name, 1, pat, 1)

covered_by_glob(globs, name) ==
  /\ name \notin globs
  /\ \E glob \in globs : fnmatch(name, glob)

\* the while loop of has_suffix over the remaining labels
RECURSIVE SuffixWalk(_, _)
SuffixWalk(names, parts) ==
  IF parts = << >> THEN FALSE
  ELSE \/ Join(Tail(parts)) \in names
       \/ SuffixWalk(names, Tail(parts))

has_suffix(names, name) == SuffixWalk(names, Split(name))

(***************************************************************************)
(* Regular expressions of the parsers.  A match position is an index into  *)
(* the line; an "end" is the index after the last matched character.       *)
(***************************************************************************)
NoName == << >>

\* rx_comment = ^(#|$)
rx_comment(line) == line = << >> \/ line[1] = "#"

\* rx_inline_comment = \s*#\s*[a-z0-9-].*$ : the starts of its matches
InlineCommentStarts(line) ==
  { i \in 1..Len(line) :
      \E h \in i..Len(line) :
         /\ \A q \in i..(h - 1) : line[q] \in Whitespace
         /\ line[h] = "#"
         /\ \E c \in (h + 1)..Len(line) :
               /\ \A q \in (h + 1)..(c - 1) : line[q] \in Whitespace
               /\ line[c] \in AlNum \cup { "-" } }

\* rx_inline_comment.sub("", line): the leftmost match runs to the end of line
StripInlineComment(line) ==
  IF InlineCommentStarts(line) = {} THEN line
  ELSE SubSeq(line, 1, Min(InlineCommentStarts(line)) - 1)

\* rx_timed = .+\s*@\S+$ (match)
rx_timed(line) ==
  \E p \in 2..(Len(line) - 1) :
     /\ line[p] = "@"
     /\ \A q \in (p + 1)..Len(line) : line[q] \notin Whitespace

\* rx_trusted = ^([*a-z0-9.-]+)\s*(@\S+)?$ : [matched, name, label]
rx_trusted(line) ==
  LET stop == { k \in 1..Len(line) : line[k] \notin TrustedChars }
      L    == IF stop = {} THEN Len(line) ELSE Min(stop) - 1
      nows == { k \in (L + 1)..Len(line) : line[k] \notin Whitespace }
      a    == IF nows = {} THEN Len(line) + 1 ELSE Min(nows)
      none == [matched |-> FALSE, name |-> NoName, label |-> NoName]
  IN  IF L = 0 THEN none
      ELSE IF a > Len(line)
        THEN [matched |-> TRUE, name |-> SubSeq(line, 1, L), label |-> NoName]
      ELSE IF /\ line[a] = "@"
              /\ a < Len(line)
              /\ \A q \in (a + 1)..Len(line) : line[q] \notin Whitespace
        THEN [matched |-> TRUE, name |-> SubSeq(line, 1, L),
              label |-> SubSeq(line, a, Len(line))]
      ELSE none

\* The ends of the matches of [a-z0-9][a-z0-9.-]*[.][a-z]{2,} that start at i
DomEnds(s, i) ==
  IF i > Len(s) \/ i < 1 THEN {}
  ELSE IF s[i] \notin AlNum THEN {}
  ELSE { e \in (i + 4)..(Len(s) + 1) :
           \E p \in (i + 1)..(e - 3) :
              /\ s[p] = "."
              /\ \A q \in (i + 1)..(p - 1) : s[q] \in DomChars
              /\ \A q \in (p + 1)..(e - 1) : s[q] \in Lowers }

\* The positions a match in s can end at
Ends(s) == 1..(Len(s) + 1)

\* Group 1 of a rule whose domain group starts at i and whose remainder
\* matches from the ends in posts: the greedy quantifiers try the longest
\* group first.
DomGroup(s, i, posts) ==
  LET E == DomEnds(s, i) \cap posts
  IN  IF E = {} THEN [matched |-> FALSE, name |-> NoName]
      ELSE [matched |-> TRUE, name |-> SubSeq(s, i, Max(E) - 1)]

AtEnd(s, e) == e = Len(s) + 1

\* rx_u = ^@*\|\|(D)\^?(\$(popup|third-party))?$
rx_u(s) ==
  LET noat == { k \in 1..Len(s) : s[k] # "@" }
      b    == IF noat = {} THEN Len(s) + 1 ELSE Min(noat)
      Mod(e) ==
        \/ AtEnd(s, e)
        \/ StartsWithAt(s, e, << "$", "p", "o", "p", "u", "p" >>)
           /\ AtEnd(s, e + 6)
        \/ StartsWithAt(s, e, << "$", "t", "h", "i", "r", "d", "-",
                                "p", "a", "r", "t", "y" >>)
           /\ AtEnd(s, e + 12)
  IN  IF ~StartsWithAt(s, b, << "|", "|" >>)
        THEN [matched |-> FALSE, name |-> NoName]
      ELSE DomGroup(s, b + 2,
             { e \in Ends(s) :
                 Mod(e) \/ (StartsWithAt(s, e, << "^" >>) /\ Mod(e + 1)) })

\* rx_l = ^(D)$
rx_l(s) == DomGroup(s, 1, { e \in Ends(s) : AtEnd(s, e) })

\* rx_lw = ^[*][.](D)$
rx_lw(s) ==
  IF ~StartsWithAt(s, 1, << "*", "." >>)
    THEN [matched |-> FALSE, name |-> NoName]
  ELSE DomGroup(s, 3, { e \in Ends(s) : AtEnd(s, e) })

\* [0-9]{1,3}[.] read at i: the index after the dot, 0 when it does not match
OctetDot(s, i) ==
  LET ends == { k \in (i + 1)..(i + 3) :
                  /\ k <= Len(s)
                  /\ s[k] = "."
                  /\ \A q \in i..(k - 1) : s[q] \in Digits }
  IN  IF i < 1 \/ ends = {} THEN 0 ELSE Min(ends) + 1

\* rx_h = ^[0-9]{1,3}[.][0-9]{1,3}[.][0-9]{1,3}[.][0-9]{1,3}\s+(D)$
rx_h(s) ==
  LET o2 == OctetDot(s, 1)
      o3 == OctetDot(s, o2)
      o4 == OctetDot(s, o3)
      \* the last octet and the whitespace run; the group starts after them
      starts == { g \in (o4 + 2)..Len(s) :
                    \E w \in (o4 + 1)..(o4 + 3) :
                       /\ w < g
                       /\ \A q \in o4..(w - 1) : s[q] \in Digits
                       /\ \A q \in w..(g - 1) : s[q] \in Whitespace
                       /\ s[g] \notin Whitespace }
  IN  IF o4 = 0 \/ starts = {} THEN [matched |-> FALSE, name |-> NoName]
      ELSE DomGroup(s, Min(starts), { e \in Ends(s) : AtEnd(s, e) })

\* rx_mdl = ^"[^"]+","(D)",
rx_mdl(s) ==
  LET quotes == { k \in 2..Len(s) : s[k] = "\"" }
      c      == IF quotes = {} THEN 0 ELSE Min(quotes)
  IN  IF \/ ~StartsWithAt(s, 1, << "\"" >>)
         \/ c < 3
         \/ ~StartsWithAt(s, c, << "\"", ",", "\"" >>)
        THEN [matched |-> FALSE, name |-> NoName]
      ELSE DomGroup(s, c + 3,
             { e \in Ends(s) : StartsWithAt(s, e, << "\"", "," >>) })

\* rx_b = ^(D),.+,[0-9: /-]+,
rx_b(s) ==
  DomGroup(s, 1,
    { e \in Ends(s) :
      /\ StartsWithAt(s, e, << "," >>)
      /\ \E a \in (e + 2)..Len(s) : \E b \in (a + 2)..Len(s) :
            /\ s[a] = ","
            /\ s[b] = ","
            /\ \A q \in (a + 1)..(b - 1) :
                  s[q] \in Digits \cup { ":", " ", "/", "-" } })

\* rx_dq = ^address=/(D)/.
rx_dq(s) ==
  LET lit == << "a", "d", "d", "r", "e", "s", "s", "=", "/" >>
  IN  IF ~StartsWithAt(s, 1, lit) THEN [matched |-> FALSE, name |-> NoName]
      ELSE DomGroup(s, 10,
             { e \in Ends(s) :
                 StartsWithAt(s, e, << "/" >>) /\ e + 1 <= Len(s) })

\* rx_abp = ^[|@]?[|@]?(D)[#@]?[#@]?.*$
rx_abp(s) ==
  LET lead == { k \in 1..3 : k <= Len(s) /\ s[k] \notin { "|", "@" } }
  IN  IF lead = {} THEN [matched |-> FALSE, name |-> NoName]
      ELSE DomGroup(s, Min(lead), Ends(s))

\* rx_wildcard = ^[*]?(D)[*]?$
rx_wildcard(s) ==
  LET i == IF StartsWithAt(s, 1, << "*" >>) THEN 2 ELSE 1
  IN  DomGroup(s, i,
        { e \in Ends(s) :
            AtEnd(s, e) \/ (StartsWithAt(s, e, << "*" >>) /\ AtEnd(s, e + 1)) })

\* rx_domain = (D), searched anywhere: the leftmost start, the longest group
rx_domain(s) ==
  LET starts == { i \in 1..Len(s) : DomEnds(s, i) # {} }
  IN  IF starts = {} THEN [matched |-> FALSE, name |-> NoName]
      ELSE DomGroup(s, Min(starts), Ends(s))

\* rx_set of parse_list, in its order; rule(k, line) is rx_set[k].search(line)
RxSetLen == 9

rx_set(k, s) ==
  CASE k = 1 -> rx_u(s)
    [] k = 2 -> rx_l(s)
    [] k = 3 -> rx_lw(s)
    [] k = 4 -> rx_h(s)
    [] k = 5 -> rx_mdl(s)
    [] k = 6 -> rx_b(s)
    [] k = 7 -> rx_dq(s)
    [] k = 8 -> rx_abp(s)
    [] OTHER -> rx_wildcard(s)

(***************************************************************************)
(* parse_trusted_list and parse_list.  A content is the sequence of lines  *)
(* content.splitlines() yields.                                            *)
(***************************************************************************)
\* len(name) > 4
MinNameLen == 4

EmptyParse ==
  [names |-> {}, time_restrictions |-> << >>, globs |-> {},
   unsupported_formats |-> {}, skipped_lines |-> << >>, processed_lines |-> 0]

\* The line is a name with an optional label: m is rx_trusted's match
TrustedName(acc, m) ==
  IF ~m.matched THEN acc
  ELSE IF m.label = NoName THEN [acc EXCEPT !.names = @ \cup { m.name }]
  ELSE [acc EXCEPT !.names = @ \cup { m.name },
                   !.time_restrictions = (m.name :> m.label) @@ @]

\* The line after the inline comment is removed: a glob or a name
TrustedEntry(acc, line) ==
  IF is_glob(line) /\ ~rx_timed(line)
    THEN [acc EXCEPT !.globs = @ \cup { line }, !.names = @ \cup { line }]
  ELSE TrustedName(acc, rx_trusted(line))

\* The stripped, lower-cased line: a comment or an entry
TrustedStripped(acc, line) ==
  IF rx_comment(line) THEN acc
  ELSE TrustedEntry(acc, Strip(StripInlineComment(line)))

\* One iteration of the loop of parse_trusted_list
TrustedLine(acc, raw) == TrustedStripped(acc, Lower(Strip(raw)))

RECURSIVE TrustedLoop(_, _)
TrustedLoop(acc, lines) ==
  IF lines = << >> THEN acc
  ELSE TrustedLoop(TrustedLine(acc, Head(lines)), Tail(lines))

parse_trusted_list(content) == TrustedLoop(EmptyParse, content)

\* FirstRule as it would be if the last rule that matches gave the name
RECURSIVE FirstRuleLast(_, _)
FirstRuleLast(k, line) ==
  IF k > RxSetLen THEN 0
  ELSE IF FirstRuleLast(k + 1, line) # 0 THEN FirstRuleLast(k + 1, line)
  ELSE IF rx_set(k, line).matched THEN k
  ELSE 0

\* for rx in rx_set: the first rule from k on that matches the line, 0 if none
RECURSIVE FirstRule(_, _)
FirstRule(k, line) ==
  IF k > RxSetLen THEN 0
  ELSE IF rx_set(k, line).matched THEN k
  ELSE FirstRule(k + 1, line)

\* What one line of an untrusted list comes to:
\*   [kind |-> "comment" | "format" | "name" | "short" | "skipped",
\*    rule |-> the rule of rx_set that matched (RxSetLen + 1: rx_domain), ...]
Outcome(kind, rule, line, name) ==
  [kind |-> kind, rule |-> rule, line |-> line, name |-> name]

\* Extracted as it would be with the length test off by one
ExtractedOffByOne(line, k, name) ==
  IF Len(name) > MinNameLen + 1 THEN Outcome("name", k, line, name)
  ELSE Outcome("short", k, line, NoName)

\* Extracted as it would be without the length test
ExtractedAnyLength(line, k, name) == Outcome("name", k, line, name)

\* if name and len(name) > 4, after rule k of rx_set matched
Extracted(line, k, name) ==
  IF Len(name) > MinNameLen THEN Outcome("name", k, line, name)
  ELSE Outcome("short", k, line, NoName)

\* Fallback as it would be if a line that nothing matches were kept as a name
FallbackKeepsLine(line, m) ==
  IF m.matched /\ Len(m.name) > MinNameLen
    THEN Outcome("name", RxSetLen + 1, line, m.name)
  ELSE Outcome("name", 0, line, line)

\* if not matched: m is rx_domain.search(line)
Fallback(line, m) ==
  IF m.matched /\ Len(m.name) > MinNameLen
    THEN Outcome("name", RxSetLen + 1, line, m.name)
  ELSE Outcome("skipped", 0, line, NoName)

\* k is the first rule that matches the line, 0 when none does
ByRule(line, k) ==
  IF k # 0 THEN Extracted(line, k, rx_set(k, line).name)
  ELSE Fallback(line, rx_domain(line))

\* The line after the inline comment is removed
ClassifyEntry(line) ==
  IF Contains(line, << "f", "o", "r", "m", "a", "t", ":" >>)
    THEN Outcome("format", 0, line, NoName)
  ELSE ByRule(line, FirstRule(1, line))

\* The stripped, lower-cased line
ClassifyStripped(line) ==
  IF rx_comment(line) \/ line = << >>
    THEN Outcome("comment", 0, line, NoName)
  ELSE ClassifyEntry(Strip(StripInlineComment(line)))

ClassifyLine(raw) == ClassifyStripped(Lower(Strip(raw)))

\* The sets and the counter after a line that came to c
Recorded(acc, c) ==
  CASE c.kind = "comment" -> acc
    [] c.kind = "format" ->
         [acc EXCEPT !.processed_lines = @ + 1,
                     !.unsupported_formats = @ \cup { c.line }]
    [] c.kind = "name" ->
         [acc EXCEPT !.processed_lines = @ + 1, !.names = @ \cup { c.name }]
    [] c.kind = "short" -> [acc EXCEPT !.processed_lines = @ + 1]
    [] OTHER ->
         [acc EXCEPT !.processed_lines = @ + 1,
                     !.skipped_lines = Append(@, c.line)]

\* One iteration of the loop of parse_list
UntrustedLine(acc, raw) == Recorded(acc, ClassifyLine(raw))

RECURSIVE UntrustedLoop(_, _)
UntrustedLoop(acc, lines) ==
  IF lines = << >> THEN acc
  ELSE UntrustedLoop(UntrustedLine(acc, Head(lines)), Tail(lines))

parse_list(content, trusted) ==
  IF trusted THEN parse_trusted_list(content)
  ELSE UntrustedLoop(EmptyParse, content)

(***************************************************************************)
(* The inputs of a run: the configuration file, the command line, and what *)
(* the file system and the network serve.                                  *)
(***************************************************************************)
\* the longest configuration file of the model, in lines
MaxSources == 2

url_local == << "f", "i", "l", "e", ":", "l" >>

url_a == << "h", "t", "t", "p", ":", "a" >>

url_b == << "h", "t", "t", "p", ":", "b" >>

ConfigLines == { url_local, url_a, url_b, << "#", " ", "c" >> }

RECURSIVE SeqsUpTo(_, _)
SeqsUpTo(S, n) ==
  IF n = 0 THEN { << >> }
  ELSE LET shorter == SeqsUpTo(S, n - 1)
       IN  shorter \cup { Append(q, x) : q \in shorter, x \in S }

\* argparse defaults of --allowlist and --time-restricted
DefaultAllowlist ==
  << "d", "o", "m", "a", "i", "n", "s", "-", "a", "l", "l", "o", "w",
     "l", "i", "s", "t", ".", "t", "x", "t" >>

DefaultTimeRestricted ==
  << "d", "o", "m", "a", "i", "n", "s", "-", "t", "i", "m", "e", "-",
     "r", "e", "s", "t", "r", "i", "c", "t", "e", "d", ".", "t", "x", "t" >>

\* Local blocklists: a "*." line, a glob with a name, a wildcard name that
\* carries a time restriction
LocalFiles ==
  { << << "*", ".", "a", "b", ".", "c", "c" >> >>,
    << << "?", ".", "a", "b", ".", "c", "c" >>,
       << "c", "d", ".", "e", "e", " ", "#", " ", "l", "o", "c", "a", "l" >> >>,
    << << "a", "*", ".", "c", "c", " ", "@", "w" >> >> }

\* Remote lists: hosts lines; one name in the form of each rule but the hosts
\* one; an unparsable line before a bare name; a list with no name (a line
\* nothing matches, a bare name of four characters, the same name where only
\* the search finds it, a format declaration)
RemoteLists ==
  { << << "#", " ", "h", "o", "s", "t", "s" >>,
       << "0", ".", "0", ".", "0", ".", "0", " ", "a", "b", ".", "c", "c" >>,
       << "0", ".", "0", ".", "0", ".", "0", "\t", "X", ".", "a", "b", ".", "c", "c" >> >>,
    << << "|", "|", "a", "b", ".", "c", "c", "^" >>,
       << "a", "b", ".", "c", "c" >>,
       << "*", ".", "a", "b", ".", "c", "c" >>,
       << "\"", "x", "\"", ",", "\"", "a", "b", ".", "c", "c", "\"", "," >>,
       << "a", "b", ".", "c", "c", ",", "x", ",", "1", "," >>,
       << "a", "d", "d", "r", "e", "s", "s", "=", "/", "a", "b", ".", "c", "c", "/", "1" >>,
       << "|", "a", "b", ".", "c", "c", "#", "#", "x" >>,
       << "*", "a", "b", ".", "c", "c", "*" >> >>,
    << << "n", "o", "t", " ", "a", " ", "d", "o", "m", "a", "i", "n", " ", "!", "!", "!" >>,
       << "x", ".", "a", "b", ".", "c", "c" >> >>,
    << << "!", " ", "e", "m", "p", "t", "y" >>,
       << "a", ".", "c", "c" >>,
       << "x", " ", "a", ".", "c", "c" >>,
       << "!", " ", "f", "o", "r", "m", "a", "t", ":", " ", "x" >> >> }

\* Allow-lists
AllowFiles ==
  { << << "a", "b", ".", "c", "c" >> >>,
    << << "x", ".", "a", "b", ".", "c", "c" >> >> }

\* Time-restricted lists: a name with a label and a name without one
TimeRestrictedFiles ==
  { << << "c", "d", ".", "e", "e", " ", "@", "w", "o", "r", "k" >>,
       << "x", ".", "a", "b", ".", "c", "c" >> >> }

\* what stood under --output-file before the run
PreviousFile == << << "previous" >> >>

\* Request(url).type: the text before the first ":" ("" when there is none)
UrlType(url) ==
  LET colons == { k \in 1..Len(url) : url[k] = ":" }
  IN  IF colons = {} THEN << >> ELSE SubSeq(url, 1, Min(colons) - 1)

\* re.match(r"^[a-z0-9]+:", url)
HasScheme(url) ==
  \E k \in 2..Len(url) :
     url[k] = ":" /\ \A q \in 1..(k - 1) : url[q] \in AlNum

\* What urlopen can answer for a url: URLError, or a response with its code
\* (None, written 0, for a file) and its content.
Responses(url, contents) ==
  IF UrlType(url) = << "f", "i", "l", "e" >>
    THEN { [urlerror |-> TRUE, code |-> 0, content |-> << >>] }
         \cup { [urlerror |-> FALSE, code |-> 0, content |-> c] : c \in contents }
  ELSE { [urlerror |-> TRUE, code |-> 0, content |-> << >>],
         [urlerror |-> FALSE, code |-> 404, content |-> << >>] }
       \cup { [urlerror |-> FALSE, code |-> 200, content |-> c] : c \in contents }

HttpOk == 200

load_from_url(url, resp) ==
  LET trusted == UrlType(url) = << "f", "i", "l", "e" >>
  IN  [raised  |-> resp.urlerror \/ (~trusted /\ resp.code # HttpOk),
       content |-> resp.content,
       trusted |-> trusted]

(***************************************************************************)
(* blocklists_from_config_file                                             *)
(***************************************************************************)
VARIABLES
  config,                   \* the lines of the configuration file
  ignore_retrieval_failure, \* --ignore-retrieval-failure
  output_file,              \* whether --output-file is given
  pc,                       \* where the run is
  line_no,                  \* the configuration line the load loop is at
  loads,                    \* history: the urls loaded so far and how each ended
  blocklists,               \* the dict url -> names, as its items in order
  allowed_names, all_names, unique_names, all_globs,
  time_restricted_names, time_restrictions,
  tr_todo,                  \* names the time-restricted loop has not printed
  cur,                      \* the item of blocklists the main loop is at
  todo,                     \* names of that item the inner loop has not seen
  list_names, ignored, glob_ignored, allowed, total_domains,
  rejected,                 \* history: the names behind the three counters
  sections,                 \* history: one record per section written
  stdout, stderr, file      \* the lines written to each channel

inputs == << config, ignore_retrieval_failure, output_file >>

loadVars == << line_no, loads, blocklists, all_names, all_globs >>

timedVars == << time_restricted_names, time_restrictions, tr_todo >>

loopVars ==
  << cur, todo, list_names, ignored, glob_ignored, allowed, total_domains,
     rejected, sections, unique_names >>

channels == << stdout, stderr, file >>

vars ==
  << inputs, pc, loadVars, allowed_names, timedVars, loopVars, channels >>

NoRejects == [ignored |-> {}, glob_ignored |-> {}, allowed |-> {}]

Init ==
  /\ config \in SeqsUpTo(ConfigLines, MaxSources)
  /\ ignore_retrieval_failure \in BOOLEAN
  /\ output_file \in BOOLEAN
  /\ pc = "load"
  /\ line_no = 1
  /\ loads = << >>
  /\ blocklists = << >>
  /\ allowed_names = {}
  /\ all_names = {}
  /\ unique_names = {}
  /\ all_globs = {}
  /\ time_restricted_names = {}
  /\ time_restrictions = << >>
  /\ tr_todo = {}
  /\ cur = 0
  /\ todo = {}
  /\ list_names = << >>
  /\ ignored = 0
  /\ glob_ignored = 0
  /\ allowed = 0
  /\ total_domains = 0
  /\ rejected = NoRejects
  /\ sections = << >>
  /\ stdout = << >>
  /\ stderr = << >>
  /\ file = PreviousFile

\* print(..., file=output_fd) of outs, log_info.write of infos, log_err.write
\* of errs: output_fd is the file or sys.stdout, log_info is sys.stdout when
\* --output-file is given and sys.stderr otherwise, log_err is sys.stderr.
Write(outs, infos, errs) ==
  /\ file' = IF output_file THEN file \o outs ELSE file
  /\ stdout' = IF output_file THEN stdout \o infos ELSE stdout \o outs
  /\ stderr' = IF output_file THEN stderr \o errs ELSE stderr \o infos \o errs

\* blocklists[url] = names
DictSet(items, url, names) ==
  IF \E k \in 1..Len(items) : items[k].url = url
    THEN [k \in 1..Len(items) |->
            IF items[k].url = url THEN [url |-> url, names |-> names]
            ELSE items[k]]
  ELSE Append(items, [url |-> url, names |-> names])

\* skipped_lines[:10]
SkippedSample == 10

\* The "Processing Summary" parse_list writes to log_info
ParseLog(p) ==
  IF p.unsupported_formats = {} /\ p.skipped_lines = << >> THEN << >>
  ELSE << << "summary", p.processed_lines, Cardinality(p.names) >> >>
       \o (IF p.unsupported_formats = {} THEN << >>
           ELSE << << "unsupported", p.unsupported_formats >> >>)
       \o (IF p.skipped_lines = << >> THEN << >>
           ELSE << << "skipped",
                      SubSeq(p.skipped_lines, 1,
                             IF Len(p.skipped_lines) < SkippedSample
                               THEN Len(p.skipped_lines) ELSE SkippedSample),
                      IF Len(p.skipped_lines) > SkippedSample
                        THEN Len(p.skipped_lines) - SkippedSample ELSE 0 >> >>)

\* Loaded as it would be without the test `if names`
LoadedEvenIfEmpty(url, got, p) ==
  /\ Write(<< >>, << << "loading", url >> >> \o ParseLog(p), << >>)
  /\ loads' = Append(loads, [url |-> url, raised |-> FALSE,
                             trusted |-> got.trusted, content |-> got.content,
                             names |-> p.names, globs |-> p.globs])
  /\ blocklists' = DictSet(blocklists, url, p.names)
  /\ all_names' = all_names \cup p.names
  /\ all_globs' = all_globs \cup p.globs

\* The body of the try block once the content is parsed into p
Loaded(url, got, p) ==
  /\ Write(<< >>, << << "loading", url >> >> \o ParseLog(p), << >>)
  /\ loads' = Append(loads, [url |-> url, raised |-> FALSE,
                             trusted |-> got.trusted, content |-> got.content,
                             names |-> p.names, globs |-> p.globs])
  /\ IF p.names # {}
       THEN /\ blocklists' = DictSet(blocklists, url, p.names)
            /\ all_names' = all_names \cup p.names
            /\ all_globs' = all_globs \cup p.globs
       ELSE UNCHANGED << blocklists, all_names, all_globs >>

\* content, trusted = load_from_url(url) has returned got
Fetched(url, got) ==
  /\ ~got.raised
  /\ Loaded(url, got, parse_list(got.content, got.trusted))

\* The lists a url can serve
Contents(url) ==
  IF UrlType(url) = << "f", "i", "l", "e" >> THEN LocalFiles ELSE RemoteLists

IsUrlLine(line) == line # << >> /\ line[1] # "#"

\* SkipConfigLine as it would be if the file were read again from its first
\* line after a comment
SkipConfigLineRewinds ==
  /\ pc = "load"
  /\ line_no <= Len(config)
  /\ ~IsUrlLine(Strip(config[line_no]))
  /\ line_no' = 1
  /\ UNCHANGED << inputs, pc, loads, blocklists, all_names, all_globs,
                  allowed_names, timedVars, loopVars, channels >>

\* A comment or blank line of the configuration file
SkipConfigLine ==
  /\ pc = "load"
  /\ line_no <= Len(config)
  /\ ~IsUrlLine(Strip(config[line_no]))
  /\ line_no' = line_no + 1
  /\ UNCHANGED << inputs, pc, loads, blocklists, all_names, all_globs,
                  allowed_names, timedVars, loopVars, channels >>

\* try: load_from_url(url), parse_list(content, trusted), neither raising
TryLoad(url) ==
  \E resp \in Responses(url, Contents(url)) :
     Fetched(url, load_from_url(url, resp))

\* One url of the configuration file whose load and parse succeed
LoadSource ==
  /\ pc = "load"
  /\ line_no <= Len(config)
  /\ IsUrlLine(Strip(config[line_no]))
  /\ TryLoad(Strip(config[line_no]))
  /\ line_no' = line_no + 1
  /\ UNCHANGED << inputs, pc, allowed_names, timedVars, loopVars >>

\* The except clause of the load loop
Raised(url) ==
  /\ Write(<< >>, << << "loading", url >> >>,
           << << "error", url >> >>
           \o (IF ~ignore_retrieval_failure
                 THEN << << "skipping", url >> >> ELSE << >>))
  /\ loads' = Append(loads, [url |-> url, raised |-> TRUE,
                             trusted |-> FALSE, content |-> << >>,
                             names |-> {}, globs |-> {}])

\* try: load_from_url(url) raising
TryLoadRaises(url) ==
  \E resp \in Responses(url, {}) :
     load_from_url(url, resp).raised /\ Raised(url)

\* LoadSourceFails as it would be if the failure ended the run
LoadSourceAborts ==
  /\ pc = "load"
  /\ line_no <= Len(config)
  /\ IsUrlLine(Strip(config[line_no]))
  /\ TryLoadRaises(Strip(config[line_no]))
  /\ pc' = "returned"
  /\ UNCHANGED << inputs, line_no, blocklists, all_names, all_globs,
                  allowed_names, timedVars, loopVars >>

\* One url of the configuration file whose load raises
LoadSourceFails ==
  /\ pc = "load"
  /\ line_no <= Len(config)
  /\ IsUrlLine(Strip(config[line_no]))
  /\ TryLoadRaises(Strip(config[line_no]))
  /\ line_no' = line_no + 1
  /\ UNCHANGED << inputs, pc, blocklists, all_names, all_globs,
                  allowed_names, timedVars, loopVars >>

\* output_fd = sys.stdout, or open(output_file, "w") succeeding
OpenOutput ==
  /\ pc = "load"
  /\ line_no > Len(config)
  /\ pc' = "timed"
  /\ file' = IF output_file THEN << >> ELSE file
  /\ UNCHANGED << inputs, loadVars, allowed_names, timedVars, loopVars,
                  stdout, stderr >>

\* open(output_file, "w") raising: the function returns
OpenOutputFails ==
  /\ pc = "load"
  /\ line_no > Len(config)
  /\ output_file
  /\ pc' = "returned"
  /\ stderr' = Append(stderr, << "open-error" >>)
  /\ UNCHANGED << inputs, loadVars, allowed_names, timedVars, loopVars,
                  stdout, file >>

\* "file:" + url unless the url names a scheme
WithFileScheme(url) ==
  IF url # << >> /\ ~HasScheme(url)
    THEN << "f", "i", "l", "e", ":" >> \o url ELSE url

print_restricted_name(name, restrictions) ==
  IF name \in DOMAIN restrictions
    THEN << "timed", name, restrictions[name] >>
  ELSE << "timed-ignored", name >>

\* The try block of the time-restricted list once it is parsed into p
TimeRestrictedParsed(url, p) ==
  /\ time_restricted_names' = p.names
  /\ time_restrictions' = p.time_restrictions
  /\ tr_todo' = p.names
  /\ Write(IF p.names # {} THEN << << "timed-header" >> >> ELSE << >>,
           << << "loading", url >> >>, << >>)
  /\ pc' = IF p.names # {} THEN "timed_print" ELSE "allow"

\* The time-restricted list is loaded and parsed
LoadTimeRestricted ==
  /\ pc = "timed"
  /\ \E resp \in Responses(WithFileScheme(DefaultTimeRestricted),
                           TimeRestrictedFiles) :
       /\ ~load_from_url(WithFileScheme(DefaultTimeRestricted), resp).raised
       /\ TimeRestrictedParsed(WithFileScheme(DefaultTimeRestricted),
                               parse_trusted_list(resp.content))
  /\ UNCHANGED << inputs, loadVars, allowed_names, loopVars >>

\* The time-restricted list cannot be loaded
TimeRestrictedFails ==
  /\ pc = "timed"
  /\ LET url == WithFileScheme(DefaultTimeRestricted)
     IN  \E resp \in Responses(url, {}) :
           /\ load_from_url(url, resp).raised
           /\ Write(<< >>, << << "loading", url >> >>, << << "timed-error" >> >>)
  /\ pc' = "allow"
  /\ UNCHANGED << inputs, loadVars, allowed_names, timedVars, loopVars >>

\* The allow set as it would be if only the names with a label joined it
AllowLabelledOnly(allow, names, restrictions) ==
  allow \cup (names \cap DOMAIN restrictions)

\* allowed_names |= time_restricted_names
AllowTimeRestricted(allow, names, restrictions) == allow \cup names

\* for name in time_restricted_names: one iteration, in the set's order; the
\* last one is followed by allowed_names |= time_restricted_names
PrintRestrictedName ==
  /\ pc = "timed_print"
  /\ \E name \in tr_todo :
       /\ Write(<< print_restricted_name(name, time_restrictions) >>, << >>, << >>)
       /\ tr_todo' = tr_todo \ { name }
       /\ IF tr_todo = { name }
            THEN /\ allowed_names' =
                      AllowTimeRestricted(allowed_names, time_restricted_names,
                                          time_restrictions)
                 /\ pc' = "allow"
            ELSE UNCHANGED << allowed_names, pc >>
  /\ UNCHANGED << inputs, loadVars, time_restricted_names, time_restrictions,
                  loopVars >>

\* names, _time_restrictions, _globs = parse_list(content, trusted)
AllowlistNames(got) == parse_list(got.content, got.trusted).names

\* allowlist_from_url(url) with its load answering resp
allowlist_from_url(url, resp) ==
  IF url = << >> THEN {} ELSE AllowlistNames(load_from_url(url, resp))

\* allowed_names |= allowlist_from_url(allowlist)
LoadAllowlist ==
  /\ pc = "allow"
  /\ LET url == WithFileScheme(DefaultAllowlist)
     IN  \E resp \in Responses(url, AllowFiles) :
           /\ ~load_from_url(url, resp).raised
           /\ allowed_names' = allowed_names \cup allowlist_from_url(url, resp)
           /\ Write(<< >>, << << "loading", url >> >>, << >>)
  /\ pc' = "process"
  /\ cur' = 1
  /\ total_domains' = 0
  /\ UNCHANGED << inputs, loadVars, timedVars, todo, list_names, ignored,
                  glob_ignored, allowed, rejected, sections, unique_names >>

\* The allow-list cannot be loaded: the except clause logs it
AllowlistFails ==
  /\ pc = "allow"
  /\ LET url == WithFileScheme(DefaultAllowlist)
     IN  \E resp \in Responses(url, {}) :
           /\ load_from_url(url, resp).raised
           /\ Write(<< >>, << << "loading", url >> >>, << << "allow-error" >> >>)
  /\ pc' = "process"
  /\ cur' = 1
  /\ total_domains' = 0
  /\ UNCHANGED << inputs, loadVars, allowed_names, timedVars, todo, list_names,
                  ignored, glob_ignored, allowed, rejected, sections,
                  unique_names >>

(***************************************************************************)
(* The main loop: the three tests of each name, in the order of the code   *)
(***************************************************************************)
\* if covered_by_glob(all_globs, name)
GlobCovered(name) == covered_by_glob(all_globs, name)

\* Redundant as it would be if the suffix walk looked at the accepted names
\* only
RedundantAmongAccepted(seen, name) == has_suffix(seen, name) \/ name \in seen

\* Redundant as it would be without the test of unique_names
RedundantSuffixOnly(seen, name) == has_suffix(all_names, name)

\* elif has_suffix(all_names, name) or name in unique_names, where seen is
\* unique_names
Redundant(seen, name) == has_suffix(all_names, name) \/ name \in seen

\* AllowListed as it would be without the test of the name itself
AllowListedSuffixOnly(name) == has_suffix(allowed_names, name)

\* elif has_suffix(allowed_names, name) or name in allowed_names
AllowListed(name) == has_suffix(allowed_names, name) \/ name \in allowed_names

\* Verdict as it would be with the allow-list test before the duplicate test
VerdictAllowFirst(seen, name) ==
  IF GlobCovered(name) THEN "glob_ignored"
  ELSE IF AllowListed(name) THEN "allowed"
  ELSE IF Redundant(seen, name) THEN "ignored"
  ELSE "accepted"

\* The branch the if/elif chain takes for a name
Verdict(seen, name) ==
  IF GlobCovered(name) THEN "glob_ignored"
  ELSE IF Redundant(seen, name) THEN "ignored"
  ELSE IF AllowListed(name) THEN "allowed"
  ELSE "accepted"

\* for url, names in blocklists.items(): the header and the counters
BeginSource ==
  /\ pc = "process"
  /\ cur <= Len(blocklists)
  /\ Write(<< << "header", blocklists[cur].url >> >>, << >>, << >>)
  /\ ignored' = 0
  /\ glob_ignored' = 0
  /\ allowed' = 0
  /\ list_names' = << >>
  /\ rejected' = NoRejects
  /\ todo' = blocklists[cur].names
  /\ pc' = "names"
  /\ UNCHANGED << inputs, loadVars, allowed_names, timedVars, cur,
                  total_domains, sections, unique_names >>

\* Judged as it would be if the allow-list branch did not count
JudgedAllowedUncounted(name, v) ==
  /\ todo' = todo \ { name }
  /\ glob_ignored' = IF v = "glob_ignored" THEN glob_ignored + 1
                     ELSE glob_ignored
  /\ ignored' = IF v = "ignored" THEN ignored + 1 ELSE ignored
  /\ allowed' = allowed
  /\ list_names' = IF v = "accepted" THEN Append(list_names, name)
                   ELSE list_names
  /\ unique_names' = IF v = "accepted" THEN unique_names \cup { name }
                     ELSE unique_names
  /\ rejected' = IF v = "accepted" THEN rejected
                 ELSE [rejected EXCEPT ![v] = @ \cup { name }]

\* The body of the inner loop for a name whose branch is v
Judged(name, v) ==
  /\ todo' = todo \ { name }
  /\ glob_ignored' = IF v = "glob_ignored" THEN glob_ignored + 1
                     ELSE glob_ignored
  /\ ignored' = IF v = "ignored" THEN ignored + 1 ELSE ignored
  /\ allowed' = IF v = "allowed" THEN allowed + 1 ELSE allowed
  /\ list_names' = IF v = "accepted" THEN Append(list_names, name)
                   ELSE list_names
  /\ unique_names' = IF v = "accepted" THEN unique_names \cup { name }
                     ELSE unique_names
  /\ rejected' = IF v = "accepted" THEN rejected
                 ELSE [rejected EXCEPT ![v] = @ \cup { name }]

\* for name in names: one iteration, in the set's order
ProcessName ==
  /\ pc = "names"
  /\ \E name \in todo : Judged(name, Verdict(unique_names, name))
  /\ UNCHANGED << inputs, pc, loadVars, allowed_names, timedVars, cur,
                  total_domains, sections, channels >>

\* The lines of one section after its header
SectionLines(names, n_ignored, n_glob, n_allowed) ==
  (IF n_ignored # 0 THEN << << "ignored", n_ignored >> >> ELSE << >>)
  \o (IF n_glob # 0 THEN << << "glob_ignored", n_glob >> >> ELSE << >>)
  \o (IF n_allowed # 0 THEN << << "allowed", n_allowed >> >> ELSE << >>)
  \o (IF n_ignored # 0 \/ n_glob # 0 \/ n_allowed # 0
        THEN << << "blank" >> >> ELSE << >>)
  \o [k \in 1..Len(names) |-> << "name", names[k] >>]

\* The section is printed from the sorted list
Flushed(sorted) ==
  /\ list_names' = sorted
  /\ Write(SectionLines(sorted, ignored, glob_ignored, allowed), << >>, << >>)
  /\ total_domains' = total_domains + Len(sorted)
  /\ sections' = Append(sections,
       [url |-> blocklists[cur].url, parsed |-> blocklists[cur].names,
        names |-> sorted, ignored |-> ignored, glob_ignored |-> glob_ignored,
        allowed |-> allowed, rejected |-> rejected])

\* list_names.sort(key=name_cmp), the counters and the names are printed
EndSource ==
  /\ pc = "names"
  /\ todo = {}
  /\ Flushed(SortByNameCmp(list_names))
  /\ cur' = cur + 1
  /\ pc' = "process"
  /\ UNCHANGED << inputs, loadVars, allowed_names, timedVars, todo, ignored,
                  glob_ignored, allowed, rejected, unique_names >>

\* The loop is over: the total is logged and the output closed
Finish ==
  /\ pc = "process"
  /\ cur > Len(blocklists)
  /\ Write(<< >>, << << "total", total_domains >> >>, << >>)
  /\ pc' = "done"
  /\ UNCHANGED << inputs, loadVars, allowed_names, timedVars, loopVars >>

Next ==
  \/ SkipConfigLine
  \/ LoadSource
  \/ LoadSourceFails
  \/ OpenOutput
  \/ OpenOutputFails
  \/ LoadTimeRestricted
  \/ TimeRestrictedFails
  \/ PrintRestrictedName
  \/ LoadAllowlist
  \/ AllowlistFails
  \/ BeginSource
  \/ ProcessName
  \/ EndSource
  \/ Finish

Spec == Init /\ [][Next]_vars

(***************************************************************************)
(* What the claims speak of                                                *)
(***************************************************************************)
\* The artifact: the lines printed to output_fd
OutputLines == IF output_file THEN file ELSE stdout

NameLines == { k \in 1..Len(OutputLines) : OutputLines[k][1] = "name" }

\* The domains of the blocklist sections of the artifact
EmittedNames == { OutputLines[k][2] : k \in NameLines }

\* The section line k of the artifact belongs to: the headers down to it
SectionOf(k) ==
  Cardinality({ j \in 1..k : OutputLines[j][1] = "header" })

\* d2 = some-labels + "." + d1
DottedSuffix(d1, d2) ==
  /\ Len(d2) > Len(d1)
  /\ SubSeq(d2, Len(d2) - Len(d1), Len(d2)) = << "." >> \o d1

\* The names a finished section counted under one of its three counters
Rejects(sec) ==
  sec.rejected.ignored \cup sec.rejected.glob_ignored \cup sec.rejected.allowed

\* C1: after a completed run no emitted domain is a dotted suffix of another
\* emitted domain, in the same section or in different ones.
C1_NoRedundancySurvives ==
  pc = "done" =>
    \A d1 \in EmittedNames : \A d2 \in EmittedNames : ~DottedSuffix(d1, d2)

\* A completed run in which a domain is emitted and a subdomain of it was
\* parsed from some source.
C1_Witness ==
  /\ pc = "done"
  /\ \E d1 \in EmittedNames : \E d2 \in all_names : DottedSuffix(d1, d2)

\* C2: a domain of the allow set (allow-list or time-restricted list) is in
\* no accepted list, is not emitted, and every section whose source yields
\* it counts it under one of its rejection counters.
C2_AllowedNeverAccepted ==
  /\ allowed_names \cap unique_names = {}
  /\ allowed_names \cap Range(list_names) = {}
  /\ allowed_names \cap EmittedNames = {}
  /\ \A k \in 1..Len(sections) :
        /\ allowed_names \cap Range(sections[k].names) = {}
        /\ (allowed_names \cap sections[k].parsed) \subseteq Rejects(sections[k])
        /\ sections[k].ignored + sections[k].glob_ignored + sections[k].allowed
             = Cardinality(Rejects(sections[k]))

\* A finished section whose source yielded an allowed domain and counted it
\* for the allow-list.
C2_Witness ==
  \E k \in 1..Len(sections) :
     /\ sections[k].allowed > 0
     /\ allowed_names \cap sections[k].parsed \cap sections[k].rejected.allowed # {}

\* C3: in a completed run every domain stands on one line of the artifact
\* only, in the section of the first item of blocklists (the sources in
\* configuration order) whose parsed set holds it.
C3_FirstSourceWins ==
  pc = "done" =>
    \A k \in NameLines :
       /\ \A j \in NameLines : OutputLines[j][2] = OutputLines[k][2] => j = k
       /\ SectionOf(k) \in 1..Len(blocklists)
       /\ OutputLines[k][2] \in blocklists[SectionOf(k)].names
       /\ \A j \in 1..(SectionOf(k) - 1) :
             OutputLines[k][2] \notin blocklists[j].names

\* A completed run in which an emitted domain was parsed from two sources.
C3_Witness ==
  /\ pc = "done"
  /\ \E k \in NameLines : \E j \in 1..Len(blocklists) :
        /\ j > SectionOf(k)
        /\ OutputLines[k][2] \in blocklists[j].names

\* Something was written to the artifact, or the file under --output-file
\* is no longer what it was
OutputStarted ==
  IF output_file THEN file # PreviousFile ELSE stdout # << >>

\* C4: without --ignore-retrieval-failure the first url whose load raises
\* ends the run: no url is loaded after it, no name goes through the three
\* tests, and nothing is written to the output.
C4_AbortOnFirstFailure ==
  \A k \in 1..Len(loads) :
     (loads[k].raised /\ ~ignore_retrieval_failure) =>
        /\ Len(loads) = k
        /\ pc # "names"
        /\ sections = << >>
        /\ ~OutputStarted

\* The run is sure to print more lines to output_fd
WritesPending ==
  \/ pc \in { "timed_print", "names" }
  \/ pc \in { "timed", "allow" } /\ blocklists # << >>
  \/ pc = "process" /\ cur <= Len(blocklists)

\* C5: the file named by --output-file is at every point either what it was
\* before the run or the complete output; it never holds a part of it.
C5_AtomicOutput ==
  output_file => (file = PreviousFile \/ ~WritesPending)

\* C6: when the allow-list cannot be loaded the run stops before the
\* blocklist sections: no section is written and no name is accepted.
C6_AllowlistFailureIsFatal ==
  (\E k \in 1..Len(stderr) : stderr[k] = << "allow-error" >>) =>
     /\ pc # "names"
     /\ sections = << >>
     /\ unique_names = {}
     /\ \A k \in 1..Len(OutputLines) : OutputLines[k][1] # "header"

\* The names of S as a sequence in the order of name_cmp
RECURSIVE InNameOrder(_)
InNameOrder(S) ==
  IF S = {} THEN << >>
  ELSE LET first == CHOOSE x \in S :
                      \A y \in S : x = y \/ StrLess(name_cmp(x), name_cmp(y))
       IN  << first >> \o InNameOrder(S \ { first })

\* The time-restricted block, its names taken in the order of name_cmp
TimedBlockOf(names) ==
  IF names = << >> THEN << >>
  ELSE << << "timed-header" >> >>
       \o [k \in 1..Len(names) |->
             print_restricted_name(names[k], time_restrictions)]

\* The names of a parsed set that the if/elif chain sends to branch v when
\* the names in seen are accepted already
Branch(parsed, seen, v) == { n \in parsed : Verdict(seen, n) = v }

\* The sections from item k of blocklists on, computed from the parsed sets
RECURSIVE SectionsFrom(_, _)
SectionsFrom(k, seen) ==
  IF k > Len(blocklists) THEN << >>
  ELSE << << "header", blocklists[k].url >> >>
       \o SectionLines(
            InNameOrder(Branch(blocklists[k].names, seen, "accepted")),
            Cardinality(Branch(blocklists[k].names, seen, "ignored")),
            Cardinality(Branch(blocklists[k].names, seen, "glob_ignored")),
            Cardinality(Branch(blocklists[k].names, seen, "allowed")))
       \o SectionsFrom(k + 1,
            seen \cup Branch(blocklists[k].names, seen, "accepted"))

\* C7: the lines of the output of a completed run are a function of what
\* was loaded (the parsed sources in order, the allow set, the
\* time-restricted names and labels), whatever the order in which the sets
\* were iterated.
C7_OutputIsFunctionOfInputs ==
  pc = "done" =>
    OutputLines = TimedBlockOf(InNameOrder(time_restricted_names))
                  \o SectionsFrom(1, {})

\* A line "*." + S with no other wildcard in it
IsStarDotLine(g) ==
  /\ StartsWithAt(g, 1, << "*", "." >>)
  /\ \A k \in 3..Len(g) : g[k] \in DomChars

\* The names accepted in a finished section
Accepted(sec) == Range(sec.names)

\* d is, or has a dotted suffix, in the allow set
UnderAllowSet(d) ==
  d \in allowed_names \/ \E a \in allowed_names : DottedSuffix(a, d)

HostsLines(n) ==
  { ip \o ws \o n :
      ip \in { << "0", ".", "0", ".", "0", ".", "0" >>,
               << "1", "2", "7", ".", "0", ".", "0", ".", "1" >> },
      ws \in { << " " >>, << "\t" >>, << " ", " " >> } }

\* The Adblock line for a name
AdblockLine(n) == << "|", "|" >> \o n \o << "^" >>

\* The names both forms are read for before any source is loaded
SampleNames ==
  { << "a", "b", ".", "c", "c" >>,
    << "x", ".", "a", "b", ".", "c", "c" >>,
    << "b", "a", "d", ".", "e", "x", "a", "m", "p", "l", "e", ".", "c", "o", "m" >>,
    << "a", "-", "b", ".", "c", "0", ".", "d", "d" >> }

\* The load that filled the item of blocklists for a url
LastLoad(url) ==
  Max({ a \in 1..Len(loads) :
          loads[a].url = url /\ ~loads[a].raised /\ loads[a].names # {} })

\* Sections j and k come from untrusted sources, one with a hosts line and
\* the other with the Adblock line for n
HostsAndAdblock(j, k, n) ==
  /\ ~loads[LastLoad(sections[j].url)].trusted
  /\ ~loads[LastLoad(sections[k].url)].trusted
  /\ \/ /\ Range(loads[LastLoad(sections[j].url)].content) \cap HostsLines(n) # {}
        /\ AdblockLine(n) \in Range(loads[LastLoad(sections[k].url)].content)
     \/ /\ Range(loads[LastLoad(sections[k].url)].content) \cap HostsLines(n) # {}
        /\ AdblockLine(n) \in Range(loads[LastLoad(sections[j].url)].content)

\* Both forms of each sample name parse to that one name
BothFormsParse ==
  \A n \in SampleNames : \A h \in HostsLines(n) :
     /\ parse_list(<< h >>, FALSE).names = { n }
     /\ parse_list(<< AdblockLine(n) >>, FALSE).names = { n }

\* C10: a hosts line and the Adblock line for a name parse to that same
\* name; when they come from two untrusted sources and the earlier section
\* accepts the name, the later one counts it as a duplicate and does not
\* emit it.
C10_HostsAndAdblockDuplicate ==
  /\ BothFormsParse
  /\ \A k \in 1..Len(sections) : \A j \in 1..(k - 1) : \A n \in SampleNames :
        HostsAndAdblock(j, k, n) =>
           /\ n \in sections[j].parsed \cap sections[k].parsed
           /\ n \in Accepted(sections[j]) =>
                 /\ n \in sections[k].rejected.ignored
                 /\ sections[k].ignored >= 1
                 /\ n \notin Accepted(sections[k])

\* Two finished sections of untrusted sources, a hosts line in one and the
\* Adblock line for the same name in the other; the earlier accepted the
\* name and the later counted it as a duplicate.
C10_Witness ==
  \E k \in 1..Len(sections) : \E j \in 1..(k - 1) : \E n \in SampleNames :
     /\ HostsAndAdblock(j, k, n)
     /\ n \in Accepted(sections[j])
     /\ n \in sections[k].rejected.ignored

(***************************************************************************)
(* The text of the artifact: what each print of the run writes, line by    *)
(* line, and the artifact read again as a local blocklist                  *)
(***************************************************************************)
\* "{}".format(n) for a counter
RECURSIVE Decimal(_)
Decimal(n) ==
  IF n < 10 THEN << DigitSeq[n + 1] >>
  ELSE Decimal(n \div 10) \o << DigitSeq[(n % 10) + 1] >>

\* "########## Blocklist from "
HeaderLead ==
  << "#", "#", "#", "#", "#", "#", "#", "#", "#", "#", " ", "B", "l", "o",
     "c", "k", "l", "i", "s", "t", " ", "f", "r", "o", "m", " " >>

\* " ##########"
HeaderTrail ==
  << " ", "#", "#", "#", "#", "#", "#", "#", "#", "#", "#" >>

\* "########## Time-based blocklist ##########"
TimedHeader ==
  << "#", "#", "#", "#", "#", "#", "#", "#", "#", "#", " ", "T", "i", "m",
     "e", "-", "b", "a", "s", "e", "d", " ", "b", "l", "o", "c", "k", "l",
     "i", "s", "t", " ", "#", "#", "#", "#", "#", "#", "#", "#", "#", "#" >>

\* "# Ignored duplicates: "
IgnoredLead ==
  << "#", " ", "I", "g", "n", "o", "r", "e", "d", " ", "d", "u", "p", "l",
     "i", "c", "a", "t", "e", "s", ":", " " >>

\* "# Ignored due to overlapping local patterns: "
GlobIgnoredLead ==
  << "#", " ", "I", "g", "n", "o", "r", "e", "d", " ", "d", "u", "e", " ",
     "t", "o", " ", "o", "v", "e", "r", "l", "a", "p", "p", "i", "n", "g",
     " ", "l", "o", "c", "a", "l", " ", "p", "a", "t", "t", "e", "r", "n",
     "s", ":", " " >>

\* "# Ignored entries due to the allowlist: "
AllowedLead ==
  << "#", " ", "I", "g", "n", "o", "r", "e", "d", " ", "e", "n", "t", "r",
     "i", "e", "s", " ", "d", "u", "e", " ", "t", "o", " ", "t", "h", "e",
     " ", "a", "l", "l", "o", "w", "l", "i", "s", "t", ":", " " >>

\* "# ignored: ["
TimedIgnoredLead ==
  << "#", " ", "i", "g", "n", "o", "r", "e", "d", ":", " ", "[" >>

\* "] was in the time-restricted list, but without a time restriction label"
TimedIgnoredTrail ==
  << "]", " ", "w", "a", "s", " ", "i", "n", " ", "t", "h", "e", " ", "t",
     "i", "m", "e", "-", "r", "e", "s", "t", "r", "i", "c", "t", "e", "d",
     " ", "l", "i", "s", "t", ",", " ", "b", "u", "t", " ", "w", "i", "t",
     "h", "o", "u", "t", " ", "a", " ", "t", "i", "m", "e", " ", "r", "e",
     "s", "t", "r", "i", "c", "t", "i", "o", "n", " ", "l", "a", "b", "e",
     "l" >>

\* The lines of text one print to output_fd writes
Printed(line) ==
  CASE line[1] = "header" ->
         << << >>, << >>, HeaderLead \o line[2] \o HeaderTrail, << >> >>
    [] line[1] = "ignored" -> << IgnoredLead \o Decimal(line[2]) >>
    [] line[1] = "glob_ignored" -> << GlobIgnoredLead \o Decimal(line[2]) >>
    [] line[1] = "allowed" -> << AllowedLead \o Decimal(line[2]) >>
    [] line[1] = "blank" -> << << >> >>
    [] line[1] = "name" -> << line[2] >>
    [] line[1] = "timed-header" -> << TimedHeader, << >> >>
    [] line[1] = "timed" -> << line[2] \o << "\t" >> \o line[3] >>
    [] line[1] = "timed-ignored" ->
         << TimedIgnoredLead \o line[2] \o TimedIgnoredTrail >>
    [] OTHER -> << line >>

\* The text of a sequence of prints
RECURSIVE Text(_)
Text(lines) ==
  IF lines = << >> THEN << >>
  ELSE Printed(Head(lines)) \o Text(Tail(lines))

\* The branch the if/elif chain takes for a name of a run whose sets are
\* globs, names and allow when the names in seen are accepted already
VerdictOver(globs, names, allow, seen, name) ==
  IF covered_by_glob(globs, name) THEN "glob_ignored"
  ELSE IF has_suffix(names, name) \/ name \in seen THEN "ignored"
  ELSE IF has_suffix(allow, name) \/ name \in allow THEN "allowed"
  ELSE "accepted"

\* The names a run accepts whose configuration names one local file that
\* parses to p, with the allow set allow
AcceptedFrom(p, allow) ==
  { n \in p.names : VerdictOver(p.globs, p.names, allow, {}, n) = "accepted" }

\* C11: the artifact of a completed run, given to a second run as its only
\* source, a local file, with the same allow-list and time-restricted list,
\* has the second run accept exactly the domains the first run emitted.
C11_AggregationIdempotent ==
  pc = "done" =>
     AcceptedFrom(parse_trusted_list(Text(OutputLines)), allowed_names)
       = EmittedNames

\* An emitted entry e blocks the domain d: it is d, a less specific ancestor
\* of d, or a wildcard pattern of the run that matches d
Blocks(e, d) ==
  e = d \/ DottedSuffix(e, d) \/ (e \in all_globs /\ fnmatch(d, e))

\* C12: after a completed run no entry of the blocklist sections blocks a
\* domain of the allow set (allow-list and time-restricted names).
C12_NoAllowedDomainBlocked ==
  pc = "done" =>
     \A a \in allowed_names : \A e \in EmittedNames : ~Blocks(e, a)

\* The run is at or past the main loop
EngineStarted == pc \in { "process", "names", "done" }

\* The names of the time-restricted list that carry no label
Unlabelled == time_restricted_names \ DOMAIN time_restrictions

\* C13: once the main loop starts every name parsed from the time-restricted
\* list is in the allow set, with or without a label; a name without a
\* label has its report printed and is neither accepted nor emitted.
C13_TimeRestrictedNamesAllowed ==
  EngineStarted =>
     /\ time_restricted_names \subseteq allowed_names
     /\ \A n \in Unlabelled :
           /\ \E k \in 1..Len(OutputLines) :
                 OutputLines[k] = << "timed-ignored", n >>
           /\ n \notin unique_names
           /\ n \notin EmittedNames

\* A completed run in which a name of the time-restricted list without a
\* label was among a source's names and was rejected there.
C13_Witness ==
  /\ pc = "done"
  /\ \E n \in Unlabelled : \E k \in 1..Len(sections) :
        n \in sections[k].parsed /\ n \in Rejects(sections[k])

\* The kinds of line that are diagnostics: the progress and error messages,
\* the parse summary with its unsupported declarations and skipped lines,
\* the report of a time-restricted name without a label, the final total
DiagnosticKinds ==
  { "loading", "error", "skipping", "summary", "unsupported", "skipped",
    "timed-error", "allow-error", "open-error", "timed-ignored", "total" }

\* C14: no diagnostic is written into the artifact, whether the artifact
\* goes to standard output or to the file of --output-file.
C14_DiagnosticsOffArtifact ==
  \A k \in 1..Len(OutputLines) : OutputLines[k][1] \notin DiagnosticKinds

\* c is the outcome of an entry (a line that is not blank, not a comment and
\* declares no format) that no rule of rx_set matches and in which rx_domain
\* finds nothing
Unparsable(c) ==
  /\ c.kind \notin { "comment", "format" }
  /\ FirstRule(1, c.line) = 0
  /\ ~rx_domain(c.line).matched

\* The names of the lines of content from line i on, each read on its own
NamesFrom(content, i) ==
  { ClassifyLine(content[j]).name :
      j \in { q \in i..Len(content) : ClassifyLine(content[q]).kind = "name" } }

\* Line i of content adds no name and one skipped line to what the lines
\* before it gave, and the lines after it are read as if it were not there
SkippedInPlace(content, i, c) ==
  /\ parse_list(SubSeq(content, 1, i), FALSE).names
       = parse_list(SubSeq(content, 1, i - 1), FALSE).names
  /\ parse_list(SubSeq(content, 1, i), FALSE).skipped_lines
       = Append(parse_list(SubSeq(content, 1, i - 1), FALSE).skipped_lines,
                c.line)
  /\ parse_list(content, FALSE).names
       = parse_list(SubSeq(content, 1, i - 1), FALSE).names
           \cup NamesFrom(content, i + 1)
  /\ \E k \in 1..Len(parse_list(content, FALSE).skipped_lines) :
        parse_list(content, FALSE).skipped_lines[k] = c.line

\* The load l did not raise and its source is not a local file
UntrustedLoad(l) == ~l.raised /\ ~l.trusted

\* C15: a line of an untrusted source that no rule matches and that holds no
\* domain-like substring adds no domain and is appended to skipped_lines;
\* the lines after it are classified all the same and the load of the
\* source returns its names without raising.  (Stated of each load as it
\* happens: of the latest load while the configuration is being read.)
C15_UnparsedLineSkipped ==
  (pc = "load" /\ loads # << >> /\ UntrustedLoad(loads[Len(loads)])) =>
     \A i \in 1..Len(loads[Len(loads)].content) :
        Unparsable(ClassifyLine(loads[Len(loads)].content[i])) =>
           /\ SkippedInPlace(loads[Len(loads)].content, i,
                             ClassifyLine(loads[Len(loads)].content[i]))
           /\ loads[Len(loads)].names
                = parse_list(loads[Len(loads)].content, FALSE).names

\* A source was loaded whose list holds an unparsable line followed by a
\* line that gave a name.
C15_Witness ==
  /\ pc = "load" /\ loads # << >> /\ UntrustedLoad(loads[Len(loads)])
  /\ \E i \in 1..Len(loads[Len(loads)].content) :
        /\ Unparsable(ClassifyLine(loads[Len(loads)].content[i]))
        /\ NamesFrom(loads[Len(loads)].content, i + 1) # {}
        /\ NamesFrom(loads[Len(loads)].content, i + 1)
             \subseteq loads[Len(loads)].names

\* The totals the run reported: the numbers of its "Processing complete"
\* lines
ReportedTotals ==
  { (stdout \o stderr)[k][2] :
      k \in { q \in 1..Len(stdout \o stderr) :
                (stdout \o stderr)[q][1] = "total" } }

\* C16: when a run completes, the total it reports is the number of distinct
\* domains of its blocklist sections: total_domains = |unique_names|, and
\* every one of them is printed on one line.
C16_TotalCountsUniqueNames ==
  pc = "done" =>
     /\ total_domains = Cardinality(unique_names)
     /\ ReportedTotals = { Cardinality(EmittedNames) }
     /\ Cardinality(NameLines) = Cardinality(EmittedNames)
     /\ EmittedNames = unique_names

\* A completed run that emitted two domains or more, counted a duplicate
\* and rejected a domain under another counter.
C16_Witness ==
  /\ pc = "done"
  /\ total_domains >= 2
  /\ \E i, j \in 1..Len(sections) :
        /\ sections[i].ignored > 0
        /\ sections[j].glob_ignored > 0 \/ sections[j].allowed > 0

\* The domains accepted from the sources before section k
AcceptedBefore(k) == UNION { Accepted(sections[j]) : j \in 1..(k - 1) }

\* What section sec did with the name n of its source
BranchIn(sec, n) ==
  IF n \in Accepted(sec) THEN "accepted"
  ELSE IF n \in sec.rejected.glob_ignored THEN "glob_ignored"
  ELSE IF n \in sec.rejected.ignored THEN "ignored"
  ELSE IF n \in sec.rejected.allowed THEN "allowed"
  ELSE "none"

\* C17 as stated: what a section does with a candidate is what the tests
\* give when the duplicate and suffix test looks only at the domains
\* accepted from the earlier sources, with the glob set and the allow set.
\* (Stated for acceptance alone: a candidate is accepted exactly when those
\* tests accept it.)
C17_DecidedByEarlierSourcesOnly ==
  \A k \in 1..Len(sections) : \A n \in sections[k].parsed :
     (BranchIn(sections[k], n) = "accepted")
       <=> (VerdictOver(all_globs, AcceptedBefore(k), allowed_names,
                        AcceptedBefore(k), n) = "accepted")

\* C17 amended: what a section does with a candidate is what the tests give
\* from the glob set, the allow set, the names parsed from all the sources
\* of the run (for the suffix test) and the domains accepted from the
\* earlier sources (for the exact duplicate); what the section itself has
\* accepted so far, and so the order in which it iterates, changes nothing.
C17_DecidedByParsedNamesAndEarlierSources ==
  \A k \in 1..Len(sections) : \A n \in sections[k].parsed :
     BranchIn(sections[k], n)
       = VerdictOver(all_globs, all_names, allowed_names,
                     AcceptedBefore(k), n)

\* A finished section rejected a candidate as a duplicate of an ancestor
\* that only its own source or a later source yields.
C17_Witness ==
  \E k \in 1..Len(sections) : \E n \in sections[k].rejected.ignored :
     /\ ~has_suffix(AcceptedBefore(k), n)
     /\ n \notin AcceptedBefore(k)
     /\ has_suffix(all_names, n)

\* C18: after a completed run, every domain counted in a section's
\* duplicates counter is itself emitted or has a less specific ancestor (a
\* proper dotted suffix) among the emitted domains.
C18_DuplicateHasEmittedAncestor ==
  pc = "done" =>
     \A k \in 1..Len(sections) : \A n \in sections[k].rejected.ignored :
        n \in EmittedNames \/ \E e \in EmittedNames : DottedSuffix(e, n)

\* What one iteration of the inner loop adds to the three counters and to
\* the accepted list
Growth ==
  [glob_ignored |-> glob_ignored' - glob_ignored,
   ignored |-> ignored' - ignored,
   allowed |-> allowed' - allowed,
   accepted |-> Len(list_names') - Len(list_names)]

\* One more under the heading v, nothing under the others
OneUnder(v) ==
  [h \in { "glob_ignored", "ignored", "allowed", "accepted" } |->
     IF h = v THEN 1 ELSE 0]

\* An iteration of the inner loop takes the name n
Takes(n) == pc = "names" /\ n \in todo /\ todo' = todo \ { n }

\* C19: each candidate goes to the first test that applies, in the order
\* glob-covered, duplicate or suffix-redundant, allow-listed (itself or a
\* dotted suffix in the allow set), and is accepted when none applies; the
\* iteration adds one to the counter of that test and to no other, and for
\* an accepted domain it adds to no counter and appends the domain.
C19_FirstApplicableTestCounts ==
  [][ \A n \in todo :
        Takes(n) =>
           /\ Growth = OneUnder(VerdictOver(all_globs, all_names,
                                            allowed_names, unique_names, n))
           /\ Growth.accepted = 1 <=> list_names' = Append(list_names, n)
    ]_vars

\* A finished section counted under the overlapping local patterns a name
\* to which all three tests applied, and accepted another name.
C19_Witness ==
  \E k \in 1..Len(sections) :
     /\ sections[k].names # << >>
     /\ \E n \in sections[k].rejected.glob_ignored :
           has_suffix(all_names, n) /\ n \in allowed_names

\* The three rejection tests, by the name of their counter
Applies(test, seen, n) ==
  CASE test = "glob_ignored" -> covered_by_glob(all_globs, n)
    [] test = "ignored" -> has_suffix(all_names, n) \/ n \in seen
    [] OTHER -> has_suffix(allowed_names, n) \/ n \in allowed_names

\* The six orders in which the three tests can be applied
TestOrders ==
  { o \in [1..3 -> { "glob_ignored", "ignored", "allowed" }] :
      \A i, j \in 1..3 : o[i] = o[j] => i = j }

\* The branch an engine takes that applies the tests in the order o
VerdictInOrder(o, seen, n) ==
  IF Applies(o[1], seen, n) THEN o[1]
  ELSE IF Applies(o[2], seen, n) THEN o[2]
  ELSE IF Applies(o[3], seen, n) THEN o[3]
  ELSE "accepted"

\* The sets such an engine accepts from item k of blocklists on, one per
\* source, when the names in seen are accepted already
RECURSIVE AcceptedInOrder(_, _, _)
AcceptedInOrder(o, k, seen) ==
  IF k > Len(blocklists) THEN << >>
  ELSE LET here == { n \in blocklists[k].names :
                       VerdictInOrder(o, seen, n) = "accepted" }
       IN  << here >> \o AcceptedInOrder(o, k + 1, seen \cup here)

\* What the program accepted, one set per section
AcceptedBySection == [k \in 1..Len(sections) |-> Accepted(sections[k])]

\* C20: after a completed run, an engine that applies the three tests in any
\* of the six orders accepts, source by source, exactly the domains the
\* program accepted; the order only moves rejected names between counters.
C20_TestOrderKeepsMembership ==
  pc = "done" =>
     \A o \in TestOrders : AcceptedInOrder(o, 1, {}) = AcceptedBySection

\* A completed run that accepted a domain and rejected one whose counter
\* depends on the order of the tests.
C20_Witness ==
  /\ pc = "done"
  /\ unique_names # {}
  /\ \E k \in 1..Len(sections) : \E n \in Rejects(sections[k]) :
        \E o1, o2 \in TestOrders :
           VerdictInOrder(o1, AcceptedBefore(k), n)
             # VerdictInOrder(o2, AcceptedBefore(k), n)

(***************************************************************************)
(* C21: globs of trusted sources and the containment tests                 *)
(***************************************************************************)
\* The globs a section's source gave: the names of the source that
\* parse_trusted_list also put in the glob set
GlobsOf(sec) == sec.parsed \cap all_globs

\* C21: a glob pattern taken from a trusted source is never removed by the
\* containment tests: no section counts it as covered by a glob, no section
\* counts it as a duplicate because a dotted suffix of its text is a name of
\* some source, and it is emitted unless the allow set holds it or a suffix
\* of it.
C21_GlobNeverContained ==
  \A k \in 1..Len(sections) :
     \A g \in GlobsOf(sections[k]) :
        /\ g \notin sections[k].rejected.glob_ignored
        /\ (has_suffix(all_names, g) => g \notin sections[k].rejected.ignored)
        /\ (~AllowListed(g) => g \in unique_names)

(***************************************************************************)
(* The load loop on its own: the configuration lines are read and each     *)
(* source is fetched and parsed.  The claims about the parsers are checked *)
(* of each load as it happens.                                             *)
(***************************************************************************)
LoadNext ==
  \/ SkipConfigLine
  \/ LoadSource
  \/ LoadSourceFails

LoadSpec == Init /\ [][LoadNext]_vars

\* The latest load is that of an untrusted source and did not raise
UntrustedLoaded ==
  pc = "load" /\ loads # << >> /\ UntrustedLoad(loads[Len(loads)])

\* The lines of the latest load
LoadedLines == loads[Len(loads)].content

(***************************************************************************)
(* C22: the order of the rules                                             *)
(***************************************************************************)
\* The rules of rx_set that match a line
Matching(line) == { k \in 1..RxSetLen : rx_set(k, line).matched }

\* A name in the form of each rule, in the order the specification lists
\* them: Adblock, bare, "*." name, hosts, quoted CSV, dated CSV, dnsmasq,
\* ABP cosmetic, loose wildcard
RuleForms(n) ==
  << AdblockLine(n),
     n,
     << "*", "." >> \o n,
     << "0", ".", "0", ".", "0", ".", "0", " " >> \o n,
     << "\"", "x", "\"", ",", "\"" >> \o n \o << "\"", "," >>,
     n \o << ",", "x", ",", "1", "," >>,
     << "a", "d", "d", "r", "e", "s", "s", "=", "/" >> \o n \o << "/", "1" >>,
     << "|" >> \o n \o << "#", "#", "x" >>,
     << "*" >> \o n \o << "*" >> >>

\* The line raw came to c, the rules in rules match it and it gave the names
\* in got: the lowest rule that matches, and that rule alone, gave the name;
\* the search was used only when no rule matches; the line gave at most one
\* name
DecidedByFirstRule(raw, c, rules, got) ==
  /\ rules # {} =>
        /\ c.rule = Min(rules)
        /\ c.kind \in { "name", "short" }
        /\ c.kind = "name" => c.name = rx_set(c.rule, c.line).name
  /\ rules = {} =>
        /\ c.rule \in { 0, RxSetLen + 1 }
        /\ c.kind \in { "name", "skipped" }
        /\ c.kind = "name" => c.name = rx_domain(c.line).name
  /\ Cardinality(got) <= 1
  /\ got = IF c.kind = "name" THEN { c.name } ELSE {}
  /\ \A k \in 1..RxSetLen :
        (c.kind = "name" /\ raw = RuleForms(c.name)[k]) => c.rule = k

\* Line raw of an untrusted list, which came to c
RuleOrderKept(raw, c) ==
  c.kind \notin { "comment", "format" } =>
     DecidedByFirstRule(raw, c, Matching(c.line),
                        parse_list(<< raw >>, FALSE).names)

\* C22: for a line of an untrusted source the rules are tried in the order
\* Adblock, bare name, "*." name, hosts line, quoted CSV, dated CSV, dnsmasq,
\* ABP cosmetic, loose wildcard; the first rule that matches alone gives the
\* name, the substring search is used only when no rule matches, and a line
\* gives at most one name.
C22_FirstMatchingRuleDecides ==
  UntrustedLoaded =>
     \A i \in 1..Len(LoadedLines) :
        RuleOrderKept(LoadedLines[i], ClassifyLine(LoadedLines[i]))

\* A list was loaded that holds one name in the form of eight rules, one of
\* its lines being matched by three rules and read by the first of them.
C22_Witness ==
  /\ UntrustedLoaded
  /\ \E n \in SampleNames :
        /\ Cardinality({ k \in 1..RxSetLen :
                           RuleForms(n)[k] \in Range(LoadedLines) }) >= 8
        /\ Cardinality(Matching(n)) = 3
        /\ ClassifyLine(n).rule = 2
        /\ loads[Len(loads)].names = { n }

(***************************************************************************)
(* C23: the length test                                                    *)
(***************************************************************************)
\* What the rules or, when none matches, the search extract from a line:
\* group 1 of the match, NoName when nothing matches
ExtractedText(line, rules) ==
  IF rules # {} THEN rx_set(Min(rules), line).name
  ELSE IF rx_domain(line).matched THEN rx_domain(line).name
  ELSE NoName

\* Line raw of an untrusted list, which came to c: when what is extracted
\* from it has four characters or fewer the line gives no name
ShortGivesNoName(raw, c) ==
  (/\ c.kind \notin { "comment", "format" }
   /\ Len(ExtractedText(c.line, Matching(c.line))) <= MinNameLen)
  => parse_list(<< raw >>, FALSE).names = {}

\* C23: every name in the set the untrusted parser returns has at least five
\* characters; a name of four characters or fewer, extracted by a rule or by
\* the search, is not added to the set.
C23_NamesHaveFiveCharacters ==
  UntrustedLoaded =>
     /\ \A n \in loads[Len(loads)].names : Len(n) >= MinNameLen + 1
     /\ loads[Len(loads)].names = parse_list(LoadedLines, FALSE).names
     /\ \A i \in 1..Len(LoadedLines) :
           ShortGivesNoName(LoadedLines[i], ClassifyLine(LoadedLines[i]))

\* A list was loaded in which a rule extracts a name of four characters from
\* one line and the search finds one in another, and neither is in the set
\* returned.
C23_Witness ==
  /\ UntrustedLoaded
  /\ \E i, j \in 1..Len(LoadedLines) :
        /\ Matching(ClassifyLine(LoadedLines[i]).line) # {}
        /\ Len(ExtractedText(ClassifyLine(LoadedLines[i]).line,
                             Matching(ClassifyLine(LoadedLines[i]).line)))
             = MinNameLen
        /\ Matching(ClassifyLine(LoadedLines[j]).line) = {}
        /\ rx_domain(ClassifyLine(LoadedLines[j]).line).matched
        /\ Len(rx_domain(ClassifyLine(LoadedLines[j]).line).name) = MinNameLen
        /\ loads[Len(loads)].names = {}

(***************************************************************************)
(* C30: what becomes of a line                                             *)
(***************************************************************************)
\* The traces the line raw leaves when it is parsed on its own, p being
\* what the parser returns for it
TracesOf(p) ==
  (IF p.names # {} THEN { "name" } ELSE {})
  \cup (IF p.unsupported_formats # {} THEN { "format" } ELSE {})
  \cup (IF p.skipped_lines # << >> THEN { "skipped" } ELSE {})

\* C30: every line of an untrusted list that is not a comment or blank ends
\* in exactly one of three outcomes: it adds a name to the set, it is
\* recorded as an unsupported format declaration, or it is appended to the
\* skipped lines; no line is dropped without a trace.
C30_EveryLineLeavesATrace ==
  UntrustedLoaded =>
     \A i \in 1..Len(LoadedLines) :
        ClassifyLine(LoadedLines[i]).kind # "comment" =>
           Cardinality(TracesOf(parse_list(<< LoadedLines[i] >>, FALSE))) = 1

(***************************************************************************)
(* list_names.sort(key=name_cmp) on its own: the inner loop has accepted   *)
(* the names of one local source in some order, and the section is sorted  *)
(* and printed.                                                            *)
(***************************************************************************)
\* the longest list the sort is applied to
MaxNames == 3

\* Names of which none is a dotted suffix of another; in plain string order
\* "m.dd.ee" stands between the names under "cc"
NamePool ==
  { << "a", ".", "a", "b", ".", "c", "c" >>,
    << "z", ".", "a", "b", ".", "c", "c" >>,
    << "m", ".", "d", "d", ".", "e", "e" >>,
    << "a", "b", "-", "x", ".", "c", "c" >>,
    << "z", "z", ".", "c", "c" >> }

\* The sequences of at most n distinct elements of S
RECURSIVE Orderings(_, _)
Orderings(S, n) ==
  IF n = 0 THEN { << >> }
  ELSE LET shorter == Orderings(S, n - 1)
       IN  shorter
           \cup UNION { { Append(q, x) : x \in S \ Range(q) } : q \in shorter }

\* The state at the end of the inner loop when file:l gave the names of q,
\* every one of them was accepted, in the order of q, and neither the
\* time-restricted list nor the allow-list could be read
InnerLoopDone(q) ==
  /\ config = << url_local >>
  /\ pc = "names"
  /\ line_no = 2
  /\ loads = << [url |-> url_local, raised |-> FALSE, trusted |-> TRUE,
                 content |-> q, names |-> Range(q), globs |-> {}] >>
  /\ blocklists = << [url |-> url_local, names |-> Range(q)] >>
  /\ allowed_names = {}
  /\ all_names = Range(q)
  /\ unique_names = Range(q)
  /\ all_globs = {}
  /\ time_restricted_names = {}
  /\ time_restrictions = << >>
  /\ tr_todo = {}
  /\ cur = 1
  /\ todo = {}
  /\ list_names = q
  /\ ignored = 0
  /\ glob_ignored = 0
  /\ allowed = 0
  /\ total_domains = 0
  /\ rejected = NoRejects
  /\ sections = << >>
  /\ file = IF output_file THEN << << "header", url_local >> >>
            ELSE PreviousFile
  /\ stdout = IF output_file
                THEN << << "loading", url_local >>,
                        << "loading", WithFileScheme(DefaultTimeRestricted) >>,
                        << "loading", WithFileScheme(DefaultAllowlist) >> >>
              ELSE << << "header", url_local >> >>
  /\ stderr = IF output_file
                THEN << << "timed-error" >>, << "allow-error" >> >>
              ELSE << << "loading", url_local >>,
                      << "loading", WithFileScheme(DefaultTimeRestricted) >>,
                      << "timed-error" >>,
                      << "loading", WithFileScheme(DefaultAllowlist) >>,
                      << "allow-error" >> >>

SortInit ==
  /\ ignore_retrieval_failure \in BOOLEAN
  /\ output_file \in BOOLEAN
  /\ \E q \in Orderings(NamePool, MaxNames) \ { << >> } : InnerLoopDone(q)

SortNext ==
  \/ EndSource
  \/ Finish

SortSpec == SortInit /\ [][SortNext]_vars

(***************************************************************************)
(* C24: the order of a section                                             *)
(***************************************************************************)
\* The name lines of section k of the artifact
NameLinesOf(k) == { j \in NameLines : SectionOf(j) = k }

\* The texts a name ends in
Endings(n) == { SubSeq(n, i, Len(n)) : i \in 2..Len(n) }

\* The name lines J of one section stand in strictly ascending order of
\* name_cmp, and the names that end in "." + S stand on consecutive lines,
\* for every S
AscendingAndClustered(J) ==
  /\ \A i, j \in J :
        i < j => StrLess(name_cmp(OutputLines[i][2]),
                         name_cmp(OutputLines[j][2]))
  /\ \A i, j \in J : \A S \in Endings(OutputLines[i][2]) :
        (i < j /\ DottedSuffix(S, OutputLines[i][2])
               /\ DottedSuffix(S, OutputLines[j][2]))
        => \A m \in J : (i < m /\ m < j) => DottedSuffix(S, OutputLines[m][2])

\* C24: within each section the accepted domains are emitted in strictly
\* ascending order of the string formed by their labels in reverse order
\* (name_cmp), so that for any suffix S the emitted domains of the section
\* that end in "." + S occupy consecutive lines; the lines are the names of
\* the section's sorted list, one per line.
C24_SectionSortedByReversedLabels ==
  \A k \in 1..Len(sections) :
     /\ AscendingAndClustered(NameLinesOf(k))
     /\ Cardinality(NameLinesOf(k)) = Len(sections[k].names)
     /\ { OutputLines[j][2] : j \in NameLinesOf(k) } = Range(sections[k].names)

\* A section of three names was printed in which the two names under "cc"
\* stand together although the list held a name between them, and the order
\* of the lines is not the order of the names as plain strings.
C24_Witness ==
  \E k \in 1..Len(sections) : \E i \in NameLinesOf(k) :
     /\ { i, i + 1, i + 2 } \subseteq NameLinesOf(k)
     /\ DottedSuffix(<< "c", "c" >>, OutputLines[i][2])
     /\ DottedSuffix(<< "c", "c" >>, OutputLines[i + 1][2])
     /\ ~DottedSuffix(<< "c", "c" >>, OutputLines[i + 2][2])
     /\ StrLess(OutputLines[i + 2][2], OutputLines[i + 1][2])
     /\ DottedSuffix(<< "c", "c" >>, loads[1].content[1])
     /\ ~DottedSuffix(<< "c", "c" >>, loads[1].content[2])
     /\ DottedSuffix(<< "c", "c" >>, loads[1].content[3])

(***************************************************************************)
(* The run as a process that keeps running: the interpreter takes the step *)
(* the program is at, and a retrieval returns or raises (urlopen is given  *)
(* the --timeout value).  No run of FairSpec stops short of a terminal     *)
(* state; the claims about whole runs, from the loading of the sources to  *)
(* the closing of the output, are read over these runs.                    *)
(***************************************************************************)
FairSpec == Spec /\ WF_vars(Next)

(***************************************************************************)
(* C25: a source that cannot be retrieved, --ignore-retrieval-failure set  *)
(***************************************************************************)
\* The urls of the configuration file, in its order
ConfiguredUrls ==
  SelectSeq([k \in 1..Len(config) |-> Strip(config[k])], IsUrlLine)

\* A load that gave names: it did not raise and its parse is not empty
GaveNames(l) == ~l.raised /\ l.names # {}

\* The dict the loads of ls fill, one after the other
RECURSIVE BlocklistsOf(_)
BlocklistsOf(ls) ==
  IF ls = << >> THEN << >>
  ELSE IF GaveNames(ls[Len(ls)])
    THEN DictSet(BlocklistsOf(SubSeq(ls, 1, Len(ls) - 1)),
                 ls[Len(ls)].url, ls[Len(ls)].names)
  ELSE BlocklistsOf(SubSeq(ls, 1, Len(ls) - 1))

\* While the configuration is read: every url up to the current line was
\* tried, in order, whatever became of the ones before it, and the sets hold
\* what the loads that gave names returned and nothing of a failed one
FailuresSkipped ==
  /\ Len(loads) <= Len(ConfiguredUrls)
  /\ \A k \in 1..Len(loads) : loads[k].url = ConfiguredUrls[k]
  /\ line_no > Len(config) => Len(loads) = Len(ConfiguredUrls)
  /\ blocklists = BlocklistsOf(loads)
  /\ all_names = UNION { loads[k].names : k \in 1..Len(loads) }
  /\ all_globs = UNION { loads[k].globs :
                           k \in { j \in 1..Len(loads) : GaveNames(loads[j]) } }
  /\ \A k \in 1..Len(loads) :
        loads[k].raised => loads[k].names = {} /\ loads[k].globs = {}

\* At the end of the run: the sections are those of the sources that gave
\* names, in order, each with the names its load returned
SectionsOfLoaded ==
  /\ Len(sections) = Len(blocklists)
  /\ \A k \in 1..Len(sections) :
        /\ sections[k].url = blocklists[k].url
        /\ sections[k].parsed = blocklists[k].names
        /\ \E j \in 1..Len(loads) :
              /\ GaveNames(loads[j])
              /\ loads[j].url = sections[k].url
              /\ loads[j].names = sections[k].parsed
  /\ Cardinality({ j \in 1..Len(OutputLines) : OutputLines[j][1] = "header" })
       = Len(sections)

\* C25: with --ignore-retrieval-failure set, a source whose retrieval fails
\* is skipped and the run goes on: the failed load gives no name, no glob
\* and no section, every other configured source is still loaded and
\* processed in order, and the run is not ended by the failure (only the
\* output file failing to open ends it early, after every source was
\* tried).
C25_FailedSourceSkipped ==
  ignore_retrieval_failure =>
     /\ pc = "load" => FailuresSkipped
     /\ pc = "done" => SectionsOfLoaded
     /\ pc = "returned" =>
           output_file /\ line_no > Len(config)
           /\ Len(loads) = Len(ConfiguredUrls)

\* A run with the flag set has ended: the first source could not be
\* retrieved, the second gave names and has its section in the output, and
\* the failed one has none.
C25_Witness ==
  /\ ignore_retrieval_failure
  /\ pc = "done"
  /\ Len(loads) = 2
  /\ loads[1].raised
  /\ GaveNames(loads[2])
  /\ loads[1].url # loads[2].url
  /\ Len(sections) = 1
  /\ sections[1].url = loads[2].url
  /\ sections[1].names # << >>
  /\ \E j \in 1..Len(OutputLines) : OutputLines[j] = << "header", loads[2].url >>
  /\ \A j \in 1..Len(OutputLines) : OutputLines[j] # << "header", loads[1].url >>

(***************************************************************************)
(* C26: termination                                                        *)
(***************************************************************************)
\* done: the function ran to its end; returned: it left at the return of
\* the except clause that follows open(output_file, "w")
Terminated == pc \in { "done", "returned" }

\* The steps the main loop takes for one item of blocklists: the header, one
\* per name, the sort and the prints
SourceWork(item) == Cardinality(item.names) + 2

\* The steps the main loop has yet to take for the items from j on
RECURSIVE WorkFrom(_)
WorkFrom(j) ==
  IF j > Len(blocklists) THEN 0
  ELSE SourceWork(blocklists[j]) + WorkFrom(j + 1)

\* No list gives more names than it has lines
MaxListNames == Max({ Len(c) : c \in LocalFiles \cup RemoteLists })

MaxTimedNames == Max({ Len(c) : c \in TimeRestrictedFiles })

\* A bound on the steps the run has yet to take.  A line of the
\* configuration file is worth more than the work its source can add.
Measure ==
  CASE pc = "load" ->
         (Len(config) + 1 - line_no) * (MaxListNames + 3)
           + WorkFrom(1) + MaxTimedNames + 5
    [] pc = "timed" -> WorkFrom(1) + MaxTimedNames + 4
    [] pc = "timed_print" -> WorkFrom(1) + Cardinality(tr_todo) + 3
    [] pc = "allow" -> WorkFrom(1) + 3
    [] pc = "process" -> WorkFrom(cur) + 1
    [] pc = "names" -> WorkFrom(cur + 1) + Cardinality(todo) + 2
    [] OTHER -> 0

\* Some step of the run can be taken: the guards of the actions
CanStep ==
  \/ pc = "load" /\ line_no <= Len(config)
       /\ ~IsUrlLine(Strip(config[line_no]))
  \/ pc = "load" /\ line_no <= Len(config)
       /\ IsUrlLine(Strip(config[line_no]))
       /\ Responses(Strip(config[line_no]), {}) # {}
  \/ pc = "load" /\ line_no > Len(config)
  \/ pc = "timed"
       /\ Responses(WithFileScheme(DefaultTimeRestricted), {}) # {}
  \/ pc = "timed_print" /\ tr_todo # {}
  \/ pc = "allow" /\ Responses(WithFileScheme(DefaultAllowlist), {}) # {}
  \/ pc = "process" /\ cur <= Len(blocklists)
  \/ pc = "process" /\ cur > Len(blocklists)
  \/ pc = "names" /\ todo # {}
  \/ pc = "names" /\ todo = {}

\* The number of times the while loop of has_suffix finds parts non-empty
\* before it returns
RECURSIVE SuffixWalkSteps(_, _)
SuffixWalkSteps(names, parts) ==
  IF parts = << >> THEN 0
  ELSE IF Join(Tail(parts)) \in names THEN 1
  ELSE 1 + SuffixWalkSteps(names, Tail(parts))

\* When the main loop starts: for every name it is going to test and both
\* sets it walks, the walk of has_suffix ends within as many iterations as
\* the name has labels
WalksEnd ==
  (pc = "process" /\ cur = 1) =>
     \A name \in all_names :
        /\ SuffixWalkSteps(all_names, Split(name)) <= Len(Split(name))
        /\ SuffixWalkSteps(allowed_names, Split(name)) <= Len(Split(name))

\* C26: every run terminates in one of the two terminal states, done or
\* aborted (returned), whatever the configuration, the retrieval failures
\* and the flag: the steps yet to take are bounded by a number that every
\* step lowers and that is 0 only in a terminal state, and a state that is
\* not terminal has a step to take; the suffix walk of has_suffix ends for
\* every name.
C26_EveryRunTerminates ==
  /\ [](Measure >= 0 /\ (Measure = 0 <=> Terminated))
  /\ [](Terminated \/ CanStep)
  /\ [][Measure' < Measure]_vars
  /\ []WalksEnd

\* A run has ended although one of its sources could not be retrieved;
\* another gave a name whose walk found a suffix at once and a name whose
\* walk went through all its labels.
C26_Witness ==
  /\ Terminated
  /\ \E k \in 1..Len(loads) : loads[k].raised
  /\ \E name \in all_names :
        /\ has_suffix(all_names, name)
        /\ SuffixWalkSteps(all_names, Split(name)) = 1
  /\ \E name \in all_names :
        /\ ~has_suffix(all_names, name)
        /\ SuffixWalkSteps(all_names, Split(name)) = Len(Split(name))
  /\ total_domains > 0

(***************************************************************************)
(* C27: one section per source                                             *)
(***************************************************************************)
\* The urls of the header lines of the artifact, in order
RECURSIVE HeadersIn(_)
HeadersIn(lines) ==
  IF lines = << >> THEN << >>
  ELSE IF Head(lines)[1] = "header"
    THEN << Head(lines)[2] >> \o HeadersIn(Tail(lines))
  ELSE HeadersIn(Tail(lines))

\* The urls of ls without repetition, each at the place of its first
\* occurrence
RECURSIVE FirstOccurrences(_)
FirstOccurrences(ls) ==
  IF ls = << >> THEN << >>
  ELSE LET before == FirstOccurrences(SubSeq(ls, 1, Len(ls) - 1))
       IN  IF \E k \in 1..Len(before) : before[k] = ls[Len(ls)].url
             THEN before
           ELSE Append(before, ls[Len(ls)].url)

NotRaised(l) == ~l.raised

\* The loads that did not raise
LoadedOnes == SelectSeq(loads, NotRaised)

\* The loads that gave at least one name
LoadedWithNames == SelectSeq(loads, GaveNames)

\* C27 as the specification has it: after a completed run the output holds
\* exactly one section per configured source that was loaded, in the order
\* of the configuration, each headed by a comment naming the source; a
\* source whose parse gives no name has its section too, and no source has
\* two.
C27_OneSectionPerLoadedSource ==
  pc = "done" => HeadersIn(OutputLines) = FirstOccurrences(LoadedOnes)

\* C27 amended: after a completed run the output holds exactly one section
\* per configured source whose load gave at least one name, in the order of
\* first mention in the configuration, each headed by a comment naming the
\* source; no source has two sections, and a source that was loaded but
\* whose parse gave no name has none; the section of a source listed twice
\* is made of the names of its last load that gave names.
C27_OneSectionPerSourceWithNames ==
  pc = "done" =>
     /\ HeadersIn(OutputLines) = FirstOccurrences(LoadedWithNames)
     /\ \A k \in 1..Len(loads) :
           ~loads[k].raised =>
              ((\E j \in 1..Len(OutputLines) :
                   OutputLines[j] = << "header", loads[k].url >>)
               <=> \E j \in 1..Len(loads) :
                      loads[j].url = loads[k].url /\ GaveNames(loads[j]))
     /\ \A k \in 1..Len(sections) :
           sections[k].parsed = loads[LastLoad(sections[k].url)].names

\* A run has ended in which a source was loaded and gave no name, and has
\* no section, and another source has its section.
C27_Witness ==
  /\ pc = "done"
  /\ \E k \in 1..Len(loads) :
        /\ ~loads[k].raised /\ loads[k].names = {}
        /\ \A j \in 1..Len(OutputLines) :
              OutputLines[j] # << "header", loads[k].url >>
  /\ Len(HeadersIn(OutputLines)) = 1

(***************************************************************************)
(* C28: the counters of a section                                          *)
(***************************************************************************)
\* The accepted list q, the three counters and the names left to test add
\* up to the names parsed from the source; the sets behind them are disjoint
\* and q has no repeated entry
Partitioned(parsed, q, n_ignored, n_glob, n_allowed, rej, left) ==
  /\ Len(q) + n_ignored + n_glob + n_allowed + Cardinality(left)
       = Cardinality(parsed)
  /\ \A i, j \in 1..Len(q) : i # j => q[i] # q[j]
  /\ n_ignored = Cardinality(rej.ignored)
  /\ n_glob = Cardinality(rej.glob_ignored)
  /\ n_allowed = Cardinality(rej.allowed)
  /\ Range(q) \cup rej.ignored \cup rej.glob_ignored \cup rej.allowed \cup left
       = parsed
  /\ Range(q) \cap (rej.ignored \cup rej.glob_ignored \cup rej.allowed) = {}
  /\ rej.ignored \cap rej.glob_ignored = {}
  /\ rej.ignored \cap rej.allowed = {}
  /\ rej.glob_ignored \cap rej.allowed = {}

\* The section the main loop wrote last
LastSection == sections[Len(sections)]

\* C28: for every processed source the names parsed from it are partitioned
\* by the main loop: the number of accepted names plus the duplicates
\* counter plus the glob counter plus the allow-list counter is the number
\* of names parsed from the source, and the accepted list has no repeated
\* entry.  (Stated of each section when it is written, and of the counters
\* while the names of a source are tested.)
C28_CountersPartitionParsedNames ==
  /\ sections # << >> =>
        Partitioned(LastSection.parsed, LastSection.names,
                    LastSection.ignored, LastSection.glob_ignored,
                    LastSection.allowed, LastSection.rejected, {})
  /\ pc = "names" =>
        Partitioned(blocklists[cur].names, list_names, ignored, glob_ignored,
                    allowed, rejected, todo)

\* A section was written for a source of two names of which one was
\* accepted and one counted, after a section with a different counter.
C28_Witness ==
  /\ Len(sections) = 2
  /\ Cardinality(LastSection.parsed) = 2
  /\ Len(LastSection.names) = 1
  /\ LastSection.ignored + LastSection.glob_ignored + LastSection.allowed = 1
  /\ sections[1].ignored + sections[1].glob_ignored + sections[1].allowed >= 1
  /\ sections[1].ignored # LastSection.ignored

(***************************************************************************)
(* C29: the order of the sources                                           *)
(***************************************************************************)
\* The orders in which n configuration lines can be written
SourceOrders(n) ==
  { f \in [1..n -> 1..n] : \A i, j \in 1..n : i # j => f[i] # f[j] }

\* The loads ls in the order f
Permuted(ls, f) == [k \in 1..Len(ls) |-> ls[f[k]]]

\* What the load loop leaves when it makes the loads ls one after the other
LoadedSets(ls) ==
  [blocklists |-> BlocklistsOf(ls),
   all_names  |-> UNION { ls[k].names :
                            k \in { j \in 1..Len(ls) : GaveNames(ls[j]) } },
   all_globs  |-> UNION { ls[k].globs :
                            k \in { j \in 1..Len(ls) : GaveNames(ls[j]) } }]

\* The names of item k of s.blocklists the main loop accepts when the names
\* in seen are accepted already
AcceptedOf(s, k, seen) ==
  { n \in s.blocklists[k].names :
      VerdictOver(s.all_globs, s.all_names, allowed_names, seen, n)
        = "accepted" }

\* The sets the main loop accepts from item k of s.blocklists on, one per
\* item, when the names in seen are accepted already
RECURSIVE AcceptedOver(_, _, _)
AcceptedAfter(s, k, seen, here) ==
  << here >> \o AcceptedOver(s, k + 1, seen \cup here)

AcceptedOver(s, k, seen) ==
  IF k > Len(s.blocklists) THEN << >>
  ELSE AcceptedAfter(s, k, seen, AcceptedOf(s, k, seen))

\* The run whose sets are s and whose sections accept acc: all that it
\* accepts is what this run accepted, and each accepted name stands under
\* the first item of s.blocklists that holds it
SameUnion(s, acc) ==
  /\ UNION { acc[k] : k \in 1..Len(acc) } = unique_names
  /\ \A k \in 1..Len(acc) : \A n \in acc[k] :
        \A j \in 1..(k - 1) : n \notin s.blocklists[j].names

\* Every url served the same names each time it was loaded
SameSources ==
  \A i, j \in 1..Len(loads) :
     (loads[i].url = loads[j].url /\ GaveNames(loads[i]) /\ GaveNames(loads[j]))
     => loads[i].names = loads[j].names /\ loads[i].globs = loads[j].globs

\* The run over the loads ls accepts what this run accepted
OrderKeepsUnion(ls) ==
  SameUnion(LoadedSets(ls), AcceptedOver(LoadedSets(ls), 1, {}))

\* C29: the set of all domains accepted in a run, the union over its
\* sections, does not depend on the order of the sources in the
\* configuration: a run over the same sources (each url serving what it
\* served) in any other order, with the same allow set, accepts the same
\* union; only the section under which a shared domain is emitted changes,
\* it being the first source in the order that holds the domain.
C29_UnionIndependentOfSourceOrder ==
  (pc = "done" /\ SameSources) =>
     /\ unique_names = EmittedNames
     /\ \A f \in SourceOrders(Len(loads)) : OrderKeepsUnion(Permuted(loads, f))

\* A run of two sources has ended: both hold a domain that was accepted,
\* under the first of them, and the run with the two in the other order
\* accepts it under the other.
C29_Witness ==
  /\ pc = "done" /\ SameSources
  /\ Len(loads) = 2 /\ Len(sections) = 2
  /\ \E n \in unique_names :
        /\ n \in sections[1].parsed \cap sections[2].parsed
        /\ n \in Range(sections[1].names)
        /\ n \in AcceptedOver(LoadedSets(Permuted(loads, << 2, 1 >>)), 1, {})[1]
        /\ LoadedSets(Permuted(loads, << 2, 1 >>)).blocklists[1].url
             = sections[2].url

====
